---- MODULE Spec2Model ----
(***************************************************************************)
(* Model of the grip network monitor: the capture / classification /       *)
(* attribution pipeline (internal/capture/capture.go), the statistics      *)
(* aggregator (internal/capture/stats.go) and the persistence layer        *)
(* (internal/database/database.go).                                        *)
(*                                                                         *)
(* capture.go carries several revisions of the pipeline.  Two of them use  *)
(* the database and process packages and are modelled here:                *)
(*   - lines 1..341 (processPacket / createPacketRecord /                  *)
(*     StorePacketRecord): Spec is the whole service with one interface,   *)
(*     SpecCapture the capture goroutines of two interfaces, SpecPair and  *)
(*     SpecThreshold two interfaces whose packets belong to one process,   *)
(*     up to the shutdown and with the threshold flushes, SpecFlush the    *)
(*     shutdown over two entries and a failing store, SpecRestart a        *)
(*     service stopped and started again on the same database;             *)
(*   - lines 650..1002 (processPacket / createAndStorePacket, which also   *)
(*     maintains the global counters): SpecCapture3.                       *)
(* Both share stats.go and database.go.  SpecDirection and SpecLookup      *)
(* apply determinePacketDirection and lookupProcessInfo to every input of  *)
(* a bounded set.  The remaining specifications check one function each:   *)
(* SpecDestinations (Destinations of an application entry), SpecAdmin      *)
(* (IsRunningAsAdmin under concurrent callers), SpecUpsert                 *)
(* (StoreInterface), and, for the process package, SpecRetry, SpecTable,   *)
(* SpecByteOrder and SpecScan (the retry loop, the validation and the scan *)
(* of FindTCPProcess / FindUDPProcess) and SpecDetails                     *)
(* (GetProcessDetails); for the persistence layer, SpecSchema              *)
(* (createTables / migrateDatabase / InitDatabase applied to stores of the *)
(* current and of the earlier schema) and SpecTimes (the timestamps that   *)
(* StoreAppStats writes).                                                  *)
(***************************************************************************)
EXTENDS Integers, Sequences, FiniteSets, TLC

(***************************************************************************)
(* Strings that the code inspects character by character (IP addresses)    *)
(* are sequences of one-character strings.                                 *)
(***************************************************************************)
IP_Loop4   == <<"1","2","7",".","0",".","0",".","1">>
IP_Loop6   == <<":",":","1">>
IP_Host    == <<"1","0",".","0",".","0",".","1">>
IP_Host2   == <<"1","0",".","0",".","0",".","2">>
IP_Remote  == <<"8",".","8",".","8",".","8">>
IP_Near127 == <<"1","2",".","7",".","0",".","1">>

IPs == {IP_Loop4, IP_Loop6, IP_Host, IP_Host2, IP_Remote, IP_Near127}

\* strings.HasPrefix
HasPrefix(s, prefix) ==
    /\ Len(s) >= Len(prefix)
    /\ SubSeq(s, 1, Len(prefix)) = prefix

(***************************************************************************)
(* The answers net.Interfaces() / iface.Addrs() can give to one isLocalIP  *)
(* call: the enumeration fails, or it yields the host's interfaces, each   *)
(* of which either fails to list its addresses or lists them.              *)
(***************************************************************************)
HostIfaceAddrs == << <<IP_Host>>, <<IP_Host2>> >>

Enumerations ==
    {[err |-> TRUE, ifaces |-> <<>>]} \cup
    {[err |-> FALSE,
      ifaces |-> [i \in 1..Len(HostIfaceAddrs) |->
                     [err |-> e[i], addrs |-> HostIfaceAddrs[i]]]] :
        e \in [1..Len(HostIfaceAddrs) -> BOOLEAN]}

\* the enumeration that succeeds for every interface
EnumerationOK ==
    [err |-> FALSE,
     ifaces |-> [i \in 1..Len(HostIfaceAddrs) |->
                    [err |-> FALSE, addrs |-> HostIfaceAddrs[i]]]]

\* isLocalIP: the loops return true at the first address equal to ip
isLocalIP(ip, enum) ==
    IF HasPrefix(ip, <<"1","2","7",".">>) \/ ip = IP_Loop6
    THEN TRUE
    ELSE IF enum.err
    THEN FALSE
    ELSE \E i \in 1..Len(enum.ifaces) :
            /\ ~enum.ifaces[i].err
            /\ \E j \in 1..Len(enum.ifaces[i].addrs) :
                   enum.ifaces[i].addrs[j] = ip

\* determinePacketDirection with the incoming and outgoing branches swapped
determinePacketDirection_swapped(srcIP, dstIP, enumSrc, enumDst) ==
    LET srcIsLocal == isLocalIP(srcIP, enumSrc)
        dstIsLocal == isLocalIP(dstIP, enumDst)
    IN  IF srcIsLocal /\ dstIsLocal THEN "internal"
        ELSE IF srcIsLocal /\ ~dstIsLocal THEN "incoming"
        ELSE IF ~srcIsLocal /\ dstIsLocal THEN "outgoing"
        ELSE "external"

\* determinePacketDirection; each isLocalIP call enumerates on its own
determinePacketDirection(srcIP, dstIP, enumSrc, enumDst) ==
    LET srcIsLocal == isLocalIP(srcIP, enumSrc)
        dstIsLocal == isLocalIP(dstIP, enumDst)
    IN  IF srcIsLocal /\ dstIsLocal THEN "internal"
        ELSE IF srcIsLocal /\ ~dstIsLocal THEN "outgoing"
        ELSE IF ~srcIsLocal /\ dstIsLocal THEN "incoming"
        ELSE "external"

Directions == {"incoming", "outgoing", "internal", "external"}


(***************************************************************************)
(* Decoded frames.  Port strings are decimal digit sequences as the        *)
(* decoder prints them; extractNetworkInfo strips a leading colon and      *)
(* processPacket parses them with strconv.ParseUint(s, 10, 16).            *)
(***************************************************************************)
Digits == <<"0","1","2","3","4","5","6","7","8","9">>

IsDigit(c) == \E i \in 1..10 : Digits[i] = c

DigitVal(c) == (CHOOSE i \in 1..10 : Digits[i] = c) - 1

RECURSIVE DecValue(_)
DecValue(s) ==
    IF s = <<>> THEN 0
    ELSE DecValue(SubSeq(s, 1, Len(s) - 1)) * 10 + DigitVal(s[Len(s)])

\* strconv.ParseUint(s, 10, 16): syntax error or range error, else the value
ParseUint16(s) ==
    IF s = <<>> \/ (\E i \in 1..Len(s) : ~IsDigit(s[i]))
    THEN [err |-> TRUE, val |-> 0]
    ELSE IF DecValue(s) > 65535
    THEN [err |-> TRUE, val |-> 65535]
    ELSE [err |-> FALSE, val |-> DecValue(s)]

\* strings.TrimPrefix
TrimPrefix(s, prefix) ==
    IF HasPrefix(s, prefix) THEN SubSeq(s, Len(prefix) + 1, Len(s)) ELSE s

\* srcPortInt / dstPortInt of processPacket: 0 unless the string parses
PortInt(s) == IF ParseUint16(s).err THEN 0 ELSE ParseUint16(s).val

Frame(net, transport, src, sport, dst, dport, protocol, length) ==
    [net |-> net, transport |-> transport, src |-> src, srcPort |-> sport,
     dst |-> dst, dstPort |-> dport, protocol |-> protocol, length |-> length]

F_Out   == Frame(TRUE, TRUE, IP_Host, <<":","5","5","5","5">>,
                 IP_Remote, <<":","4","4","3">>, "TCP", 120)
F_In    == Frame(TRUE, TRUE, IP_Remote, <<"5","3">>,
                 IP_Host, <<"5","4","3","2","1">>, "UDP", 90)
F_Int   == Frame(TRUE, TRUE, IP_Host, <<"2","2">>,
                 IP_Host, <<"2","2">>, "TCP", 60)
F_Sctp  == Frame(TRUE, TRUE, IP_Host, <<"9">>,
                 IP_Remote, <<"9">>, "SCTP", 50)
F_NoTransport == Frame(TRUE, FALSE, IP_Host, <<>>, IP_Remote, <<>>, "", 40)
F_NoNetwork   == Frame(FALSE, FALSE, <<>>, <<>>, <<>>, <<>>, "", 30)

F_Loop  == Frame(TRUE, TRUE, IP_Host, <<"5","3">>,
                 IP_Loop4, <<"5","3">>, "UDP", 70)

\* the inputs of the classifier and of the lookup
Frames == {F_Out, F_In, F_Int, F_Loop, F_Sctp, F_NoTransport, F_NoNetwork}



\* extractNetworkInfo that does not test the transport layer
extractNetworkInfo_noTransportTest(packet) ==
    IF ~packet.net
    THEN [valid |-> FALSE, src |-> <<>>, dst |-> <<>>, srcPort |-> <<>>,
          dstPort |-> <<>>, protocol |-> "", length |-> 0]
    ELSE [valid |-> TRUE, src |-> packet.src, dst |-> packet.dst,
          srcPort |-> TrimPrefix(packet.srcPort, <<":">>),
          dstPort |-> TrimPrefix(packet.dstPort, <<":">>),
          protocol |-> packet.protocol, length |-> packet.length]

\* extractNetworkInfo
extractNetworkInfo(packet) ==
    IF ~packet.net
    THEN [valid |-> FALSE, src |-> <<>>, dst |-> <<>>, srcPort |-> <<>>,
          dstPort |-> <<>>, protocol |-> "", length |-> 0]
    ELSE IF ~packet.transport
    THEN [valid |-> FALSE, src |-> <<>>, dst |-> <<>>, srcPort |-> <<>>,
          dstPort |-> <<>>, protocol |-> "", length |-> 0]
    ELSE [valid |-> TRUE, src |-> packet.src, dst |-> packet.dst,
          srcPort |-> TrimPrefix(packet.srcPort, <<":">>),
          dstPort |-> TrimPrefix(packet.dstPort, <<":">>),
          protocol |-> packet.protocol, length |-> packet.length]

(***************************************************************************)
(* Socket table resolver, seen from the pipeline.  A FindTCPProcess /      *)
(* FindUDPProcess call answers with a ProcessInfo and a nil error, with    *)
(* no ProcessInfo and an error, or (three attempts that all report an      *)
(* insufficient buffer leave lastErr nil) with neither.  GetProcessDetails *)
(* can produce an empty ProcessName.                                       *)
(***************************************************************************)
ProcessInfo(pid, name, path) ==
    [nil |-> FALSE, ProcessID |-> pid, ProcessName |-> name,
     ExecutablePath |-> path]

NilInfo == [nil |-> TRUE, ProcessID |-> 0, ProcessName |-> "",
            ExecutablePath |-> ""]

Procs == {ProcessInfo(42, "curl", "/usr/bin/curl"),
          ProcessInfo(43, "curl", "/opt/curl"),
          ProcessInfo(17, "dnsd", "/sbin/dnsd"),
          ProcessInfo(99, "", "/bin/anon")}

ResolverResults ==
    {[info |-> p, err |-> FALSE] : p \in Procs} \cup
    {[info |-> NilInfo, err |-> TRUE], [info |-> NilInfo, err |-> FALSE]}

TCPCall(localPort, remotePort) == <<"FindTCPProcess", localPort, remotePort>>
UDPCall(localPort) == <<"FindUDPProcess", localPort>>

\* lookupProcessInfo that tries the destination side before the source side
lookupProcessInfo_dstFirst(protocol, srcPortInt, dstPortInt, direction, r) ==
    LET tcpSrc == protocol = "TCP" /\ direction \in {"outgoing", "internal"}
        tcpDst == protocol = "TCP" /\ direction \in {"incoming", "internal"}
        udpSrc == protocol = "UDP" /\ direction \in {"outgoing", "internal"}
        udpDst == protocol = "UDP" /\ direction \in {"incoming", "internal"}
        c1 == IF tcpDst THEN <<TCPCall(dstPortInt, srcPortInt)>> ELSE <<>>
        c2 == IF tcpSrc THEN Append(c1, TCPCall(srcPortInt, dstPortInt)) ELSE c1
        c3 == IF udpDst THEN Append(c2, UDPCall(dstPortInt)) ELSE c2
        c4 == IF udpSrc THEN Append(c3, UDPCall(srcPortInt)) ELSE c3
    IN  IF tcpDst /\ ~r[2].err
        THEN [info |-> r[2].info, err |-> FALSE, calls |-> c1]
        ELSE IF tcpSrc /\ ~r[1].err
        THEN [info |-> r[1].info, err |-> FALSE, calls |-> c2]
        ELSE IF udpDst /\ ~r[2].err
        THEN [info |-> r[2].info, err |-> FALSE, calls |-> c3]
        ELSE IF udpSrc /\ ~r[1].err
        THEN [info |-> r[1].info, err |-> FALSE, calls |-> c4]
        ELSE [info |-> NilInfo, err |-> TRUE, calls |-> c4]

\* lookupProcessInfo without the direction tests (capture.go lines 482-525)
lookupProcessInfo_anyDirection(protocol, srcPortInt, dstPortInt, direction, r) ==
    LET tcp == protocol = "TCP"
        udp == protocol = "UDP"
        c1 == IF tcp THEN <<TCPCall(srcPortInt, dstPortInt)>> ELSE <<>>
        c2 == IF tcp THEN Append(c1, TCPCall(dstPortInt, srcPortInt)) ELSE c1
        c3 == IF udp THEN Append(c2, UDPCall(srcPortInt)) ELSE c2
        c4 == IF udp THEN Append(c3, UDPCall(dstPortInt)) ELSE c3
    IN  IF tcp /\ ~r[1].err
        THEN [info |-> r[1].info, err |-> FALSE, calls |-> c1]
        ELSE IF tcp /\ ~r[2].err
        THEN [info |-> r[2].info, err |-> FALSE, calls |-> c2]
        ELSE IF udp /\ ~r[1].err
        THEN [info |-> r[1].info, err |-> FALSE, calls |-> c3]
        ELSE IF udp /\ ~r[2].err
        THEN [info |-> r[2].info, err |-> FALSE, calls |-> c4]
        ELSE [info |-> NilInfo, err |-> TRUE, calls |-> c4]

(***************************************************************************)
(* lookupProcessInfo.  r[1] is the resolver's answer to the source-port    *)
(* side call and r[2] its answer to the destination-port side call, used   *)
(* only if that call is made.  The result carries the calls made, in       *)
(* order.                                                                  *)
(***************************************************************************)
lookupProcessInfo(protocol, srcPortInt, dstPortInt, direction, r) ==
    LET tcpSrc == protocol = "TCP" /\ direction \in {"outgoing", "internal"}
        tcpDst == protocol = "TCP" /\ direction \in {"incoming", "internal"}
        udpSrc == protocol = "UDP" /\ direction \in {"outgoing", "internal"}
        udpDst == protocol = "UDP" /\ direction \in {"incoming", "internal"}
        c1 == IF tcpSrc THEN <<TCPCall(srcPortInt, dstPortInt)>> ELSE <<>>
        c2 == IF tcpDst THEN Append(c1, TCPCall(dstPortInt, srcPortInt)) ELSE c1
        c3 == IF udpSrc THEN Append(c2, UDPCall(srcPortInt)) ELSE c2
        c4 == IF udpDst THEN Append(c3, UDPCall(dstPortInt)) ELSE c3
    IN  IF tcpSrc /\ ~r[1].err
        THEN [info |-> r[1].info, err |-> FALSE, calls |-> c1]
        ELSE IF tcpDst /\ ~r[2].err
        THEN [info |-> r[2].info, err |-> FALSE, calls |-> c2]
        ELSE IF udpSrc /\ ~r[1].err
        THEN [info |-> r[1].info, err |-> FALSE, calls |-> c3]
        ELSE IF udpDst /\ ~r[2].err
        THEN [info |-> r[2].info, err |-> FALSE, calls |-> c4]
        ELSE [info |-> NilInfo, err |-> TRUE, calls |-> c4]


(***************************************************************************)
(* Bounds of the model.                                                    *)
(***************************************************************************)
\* frames the packet sources yield in a run, over all interfaces
MaxFrames == 2
\* seconds the clock advances in one step, and the last instant modelled
TickSeconds == 31
MaxTime == 31
\* asynchronous per-entry flush goroutines that can be alive at once
MaxAsync == 1

(***************************************************************************)
(* Program constants.                                                      *)
(***************************************************************************)
\* time.Minute, in seconds
Minute == 60
\* var saveInterval = time.Minute / 2
saveInterval == Minute \div 2
\* if newCount%1000 == 0 (capture.go line 975)
SaveEveryPackets == 1000

\* the capture devices of the host
Devices == {"eth0", "wlan0"}
DeviceDescription(d) == IF d = "eth0" THEN "Ethernet" ELSE "Wireless"

(***************************************************************************)
(* What the environment of a run can do: the devices pcap.FindAllDevs()    *)
(* lists, the frames the packet sources yield, the answers of the          *)
(* interface enumeration and of the resolver, the sets of devices whose    *)
(* StoreInterface call fails, whether pcap.OpenLive succeeds, whether the  *)
(* INSERT of StorePacket does and whether the statements of the flushes    *)
(* do.  EnvCapture is the environment of the specifications of the capture *)
(* goroutines alone, EnvService the one of the specification of the whole  *)
(* service, EnvPair the one of the service with two interfaces whose       *)
(* packets all belong to one process, EnvFlush the one of a service with   *)
(* one interface, two applications and a store whose statements can fail.  *)
(***************************************************************************)
EnvCapture ==
    [devices |-> <<"eth0", "wlan0">>,
     frames |-> {F_Out, F_Loop, F_NoTransport, F_NoNetwork},
     enums |-> Enumerations,
     results |-> ResolverResults,
     failing |-> {{}, {"wlan0"}},
     opened |-> BOOLEAN,
     execOK |-> BOOLEAN,
     statsOK |-> BOOLEAN]

EnvService ==
    [devices |-> <<"eth0">>,
     frames |-> {F_Out},
     enums |-> {EnumerationOK},
     results |-> {[info |-> ProcessInfo(42, "curl", "/usr/bin/curl"),
                   err |-> FALSE],
                  [info |-> NilInfo, err |-> TRUE]},
     failing |-> {{}},
     opened |-> {TRUE},
     execOK |-> {TRUE},
     statsOK |-> {TRUE}]

EnvPair ==
    [devices |-> <<"eth0", "wlan0">>,
     frames |-> {F_Out},
     enums |-> {EnumerationOK},
     results |-> {[info |-> ProcessInfo(42, "curl", "/usr/bin/curl"),
                   err |-> FALSE]},
     failing |-> {{}},
     opened |-> {TRUE},
     execOK |-> {TRUE},
     statsOK |-> {TRUE}]

EnvFlush ==
    [devices |-> <<"eth0">>,
     frames |-> {F_Out},
     enums |-> {EnumerationOK},
     results |-> {[info |-> ProcessInfo(42, "curl", "/usr/bin/curl"),
                   err |-> FALSE],
                  [info |-> ProcessInfo(17, "dnsd", "/sbin/dnsd"),
                   err |-> FALSE]},
     failing |-> {{}},
     opened |-> {TRUE},
     execOK |-> {TRUE},
     statsOK |-> BOOLEAN]

AsyncIds == 1..MaxAsync
Flusher == <<"flusher", 0>>
MainSaver == <<"main", 0>>
Async(i) == <<"async", i>>
Savers == {Flusher, MainSaver} \cup {Async(i) : i \in AsyncIds}

VARIABLES
    now,                \* wall clock, in seconds since process start
    svc,                \* position of the service's main goroutine
    task,               \* per-interface capture goroutine: position and locals
    yielded,            \* per interface, the frames its packet source yielded
    storeCalls,         \* per interface, the records passed to StorePacket
    resolverCalls,      \* per interface, number of resolver calls made
    stats,              \* global Statistics (stats.go)
    appStats,           \* stats.ApplicationStats: key -> *ApplicationStats
    packetCounter,      \* capture.go packetCounter
    deviceIDMap,        \* capture.go deviceIDMap
    dbOpen,             \* the *sql.DB is open (db is non-nil throughout)
    network_interfaces, \* table rows, in insertion order
    packet_logs,
    application_stats,
    protocol_stats,
    saver,              \* goroutines running SaveAllStatsToDB / saveAppStatsToDB
    flusherNext,        \* next instant at which the flusher's ticker fires
    loggerOpen,
    pure,               \* state of a function that is checked on its own
    persisted           \* application_stats as the process found it at start

pipeVars == <<task, yielded, storeCalls, resolverCalls>>
aggVars  == <<stats, appStats, packetCounter>>
dbVars   == <<dbOpen, network_interfaces, packet_logs, application_stats,
              protocol_stats>>
vars == <<now, svc, task, yielded, storeCalls, resolverCalls, stats, appStats,
          packetCounter, deviceIDMap, dbOpen, network_interfaces, packet_logs,
          application_stats, protocol_stats, saver, flusherNext, loggerOpen,
          pure, persisted>>

\* sync.Map Store / plain map assignment
Put(m, k, v) == [x \in (DOMAIN m) \cup {k} |-> IF x = k THEN v ELSE m[x]]

EmptyMap == [x \in {} |-> 0]

RECURSIVE SumOver(_, _)
SumOver(m, keys) ==
    IF keys = {} THEN 0
    ELSE LET k == CHOOSE x \in keys : TRUE
         IN  m[k] + SumOver(m, keys \ {k})

\* a nullable SQL value: <<>> is NULL
Null == <<>>
NullIf(v, isNull) == IF isNull THEN Null ELSE <<v>>

NoExtract == [valid |-> FALSE, src |-> <<>>, dst |-> <<>>, srcPort |-> <<>>,
              dstPort |-> <<>>, protocol |-> "", length |-> 0]

NoRecord == [Timestamp |-> 0, DeviceID |-> 0, SrcIP |-> <<>>, SrcPort |-> <<>>,
             DstIP |-> <<>>, DstPort |-> <<>>, Protocol |-> "", Length |-> 0,
             ProcessID |-> 0, ProcessName |-> "", ProcessPath |-> "",
             Direction |-> ""]

\* a capture goroutine between two packets
TaskAt(pc) ==
    [pc |-> pc, x |-> NoExtract, direction |-> "", processInfo |-> NilInfo,
     lookupErr |-> FALSE, record |-> NoRecord, protoValue |-> 0]

\* a saver; startIdle and startYielded record, for a SaveAllStatsToDB in
\* progress, whether every capture goroutine was between two packets when
\* it was called and how many frames the sources had yielded by then
SaverIdle ==
    [pc |-> "idle", all |-> FALSE, todo |-> {}, key |-> "",
     destinations |-> <<>>, TotalPackets |-> 0, TotalBytes |-> 0,
     protoTodo |-> {}, startIdle |-> FALSE, startYielded |-> 0]

FramesYielded == SumOver([d \in Devices |-> Len(yielded[d])], Devices)

\* a capture goroutine that is not in the middle of a packet
Idle(d) == task[d].pc \in {"notStarted", "open", "recv", "exited"}

\* a saver entering SaveAllStatsToDB
SaveAllCalled ==
    [SaverIdle EXCEPT !.pc = "SaveAllStatsToDB", !.all = TRUE,
                      !.startIdle = \A d \in Devices : Idle(d),
                      !.startYielded = FramesYielded]

PipelineInit ==
    /\ now = 0
    /\ svc = "start"
    /\ task = [d \in Devices |-> TaskAt("notStarted")]
    /\ yielded = [d \in Devices |-> <<>>]
    /\ storeCalls = [d \in Devices |-> <<>>]
    /\ resolverCalls = [d \in Devices |-> 0]
    /\ stats = [TotalPackets |-> 0, TotalBytes |-> 0,
                PacketsByProtocol |-> EmptyMap, LastSavedToDB |-> 0]
    /\ appStats = EmptyMap
    /\ packetCounter = 0
    /\ deviceIDMap = EmptyMap
    /\ dbOpen = TRUE
    /\ network_interfaces = <<>>
    /\ packet_logs = <<>>
    /\ application_stats = <<>>
    /\ protocol_stats = <<>>
    /\ saver = [s \in Savers |-> SaverIdle]
    /\ flusherNext = saveInterval
    /\ loggerOpen = TRUE
    /\ persisted = <<>>


(***************************************************************************)
(* database.go                                                             *)
(***************************************************************************)
\* id INTEGER PRIMARY KEY AUTOINCREMENT: the id after the largest one in use
NextRowID(rows) ==
    IF rows = <<>> THEN 1
    ELSE (CHOOSE m \in {rows[i].id : i \in 1..Len(rows)} :
             \A i \in 1..Len(rows) : rows[i].id <= m) + 1

\* StoreInterface without the SELECT EXISTS: it inserts on every call
StoreInterface_insertOnly(rows, name, description, execOK) ==
    IF ~execOK
    THEN [rows |-> rows, id |-> 0, err |-> TRUE]
    ELSE [rows |-> Append(rows, [id |-> NextRowID(rows), name |-> name,
                                  description |-> description]),
          id |-> NextRowID(rows), err |-> FALSE]

\* StoreInterface: the id of the row with this (name, description), or a new
\* row; a failing statement leaves the table as it is and returns id 0
StoreInterface(rows, name, description, execOK) ==
    LET matching == {i \in 1..Len(rows) :
                        rows[i].name = name /\ rows[i].description = description}
    IN  IF ~execOK
        THEN [rows |-> rows, id |-> 0, err |-> TRUE]
        ELSE IF matching # {}
        THEN [rows |-> rows,
              id |-> rows[CHOOSE i \in matching : \A j \in matching : i <= j].id,
              err |-> FALSE]
        ELSE [rows |-> Append(rows, [id |-> NextRowID(rows), name |-> name,
                                      description |-> description]),
              id |-> NextRowID(rows), err |-> FALSE]

\* StorePacket that marks the process columns valid whatever their value
PacketRow_alwaysValid(packet) ==
    [timestamp |-> packet.Timestamp,
     device_id |-> packet.DeviceID,
     src_ip |-> packet.SrcIP, src_port |-> packet.SrcPort,
     dst_ip |-> packet.DstIP, dst_port |-> packet.DstPort,
     protocol |-> packet.Protocol, length |-> packet.Length,
     process_id |-> <<packet.ProcessID>>,
     process_name |-> <<packet.ProcessName>>,
     process_path |-> <<packet.ProcessPath>>,
     direction |-> NullIf(packet.Direction, packet.Direction = "")]

\* the packet_logs row StorePacket inserts for a PacketRecord
PacketRow(packet) ==
    [timestamp |-> packet.Timestamp,
     device_id |-> packet.DeviceID,
     src_ip |-> packet.SrcIP, src_port |-> packet.SrcPort,
     dst_ip |-> packet.DstIP, dst_port |-> packet.DstPort,
     protocol |-> packet.Protocol, length |-> packet.Length,
     process_id |-> NullIf(packet.ProcessID, ~(packet.ProcessID > 0)),
     process_name |-> NullIf(packet.ProcessName, packet.ProcessName = ""),
     process_path |-> NullIf(packet.ProcessPath, packet.ProcessPath = ""),
     direction |-> NullIf(packet.Direction, packet.Direction = "")]

(***************************************************************************)
(* capture.go, lines 1..341                                                *)
(***************************************************************************)
RECURSIVE RegisterDevices(_, _, _, _, _)
\* the loop of StartCapture over the devices; failing is the set of devices
\* whose StoreInterface call fails
RegisterDevices(devices, i, rows, idMap, failing) ==
    IF i > Len(devices) THEN [rows |-> rows, idMap |-> idMap]
    ELSE LET d == devices[i]
             res == StoreInterface(rows, d, DeviceDescription(d),
                                   d \notin failing)
         IN  RegisterDevices(devices, i + 1, res.rows,
                             IF res.err THEN idMap ELSE Put(idMap, d, res.id),
                             failing)

\* StartCapture, lines 32-70: register the interfaces, then start one
\* goroutine for each
StartCapture(env) ==
    /\ svc = "start"
    /\ \E failing \in env.failing :
          LET reg == RegisterDevices(env.devices, 1, network_interfaces,
                                     deviceIDMap, failing)
          IN  /\ network_interfaces' = reg.rows
              /\ deviceIDMap' = reg.idMap
    /\ task' = [d \in Devices |->
                  IF \E i \in 1..Len(env.devices) : env.devices[i] = d
                  THEN TaskAt("open") ELSE task[d]]
    /\ svc' = "running"
    /\ UNCHANGED <<now, yielded, storeCalls, resolverCalls, aggVars, dbOpen,
                   packet_logs, application_stats, protocol_stats, saver,
                   flusherNext, loggerOpen, pure, persisted>>

\* captureDevice, lines 72-80: pcap.OpenLive succeeds or the goroutine returns
captureDevice(d, env) ==
    /\ task[d].pc = "open"
    /\ \E opened \in env.opened :
          task' = [task EXCEPT ![d] =
                      TaskAt(IF opened THEN "recv" ELSE "exited")]
    /\ UNCHANGED <<now, svc, yielded, storeCalls, resolverCalls, aggVars,
                   deviceIDMap, dbVars, saver, flusherNext, loggerOpen, pure,
                   persisted>>

\* the directions determinePacketDirection can return for a pair
DirectionsFor(src, dst, enums) ==
    {determinePacketDirection(src, dst, e1, e2) : e1 \in enums, e2 \in enums}

\* the results lookupProcessInfo can return, over the resolver's answers
LookupsFor(x, direction, results) ==
    {lookupProcessInfo(x.protocol, PortInt(x.srcPort), PortInt(x.dstPort),
                       direction, r) : r \in [1..2 -> results]}

\* a PacketRecord with the two endpoints exchanged
NewRecord_swapEnds(x, direction, info, deviceID) ==
    [Timestamp |-> now, DeviceID |-> deviceID,
     SrcIP |-> x.dst, SrcPort |-> x.dstPort,
     DstIP |-> x.src, DstPort |-> x.srcPort,
     Protocol |-> x.protocol, Length |-> x.length,
     ProcessID |-> IF info.nil THEN 0 ELSE info.ProcessID,
     ProcessName |-> IF info.nil THEN "" ELSE info.ProcessName,
     ProcessPath |-> IF info.nil THEN "" ELSE info.ExecutablePath,
     Direction |-> direction]

\* the PacketRecord both revisions build
NewRecord(x, direction, info, deviceID) ==
    [Timestamp |-> now, DeviceID |-> deviceID,
     SrcIP |-> x.src, SrcPort |-> x.srcPort,
     DstIP |-> x.dst, DstPort |-> x.dstPort,
     Protocol |-> x.protocol, Length |-> x.length,
     ProcessID |-> IF info.nil THEN 0 ELSE info.ProcessID,
     ProcessName |-> IF info.nil THEN "" ELSE info.ProcessName,
     ProcessPath |-> IF info.nil THEN "" ELSE info.ExecutablePath,
     Direction |-> direction]

\* createPacketRecord, lines 168-195: a device without an id is logged and
\* the record carries the zero value; with a ProcessInfo, updateAppStats
\* is called before the record is returned
createPacketRecord(d, x, direction, look) ==
    LET deviceID == IF d \in DOMAIN deviceIDMap THEN deviceIDMap[d] ELSE 0
    IN  [pc |-> IF look.info.nil THEN "StorePacket" ELSE "updateAppStats",
         x |-> x, direction |-> direction, processInfo |-> look.info,
         lookupErr |-> look.err,
         record |-> NewRecord(x, direction, look.info, deviceID),
         protoValue |-> 0]

\* processPacket, lines 296-336: the next frame of the source is decoded and
\* dropped if invalid, else classified, looked up and made a record; these
\* steps touch no memory another goroutine writes
processPacket(d, env) ==
    /\ task[d].pc = "recv"
    /\ FramesYielded < MaxFrames
    /\ \E f \in env.frames :
          LET x == extractNetworkInfo(f)
          IN  /\ yielded' = [yielded EXCEPT ![d] = Append(@, f)]
              /\ IF ~x.valid
                 THEN UNCHANGED <<task, resolverCalls>>
                 ELSE \E direction \in DirectionsFor(x.src, x.dst, env.enums) :
                      \E look \in LookupsFor(x, direction, env.results) :
                         /\ task' = [task EXCEPT ![d] =
                               createPacketRecord(d, x, direction, look)]
                         /\ resolverCalls' = [resolverCalls EXCEPT ![d] =
                               @ + Len(look.calls)]
    /\ UNCHANGED <<now, svc, storeCalls, aggVars, deviceIDMap, dbVars, saver,
                   flusherNext, loggerOpen, pure, persisted>>

\* a StorePacket call whose failure ends the capture goroutine
StorePacket_stopOnError(d, env) ==
    /\ task[d].pc = "StorePacket"
    /\ storeCalls' = [storeCalls EXCEPT ![d] = Append(@, task[d].record)]
    /\ \E execOK \in env.execOK :
          /\ packet_logs' = IF execOK /\ dbOpen
                            THEN Append(packet_logs, PacketRow(task[d].record))
                            ELSE packet_logs
          /\ task' = [task EXCEPT ![d] =
                         TaskAt(IF execOK /\ dbOpen THEN "recv" ELSE "exited")]
    /\ UNCHANGED <<now, svc, yielded, resolverCalls, aggVars, deviceIDMap,
                   dbOpen, network_interfaces, application_stats,
                   protocol_stats, saver, flusherNext, loggerOpen, pure,
                   persisted>>

\* StorePacketRecord + logPacket (lines 212-232, 336-338), and the tail of
\* createAndStorePacket (lines 889-895): one INSERT, whose failure is logged
StorePacket(d, env) ==
    /\ task[d].pc = "StorePacket"
    /\ storeCalls' = [storeCalls EXCEPT ![d] = Append(@, task[d].record)]
    /\ \E execOK \in env.execOK :
          packet_logs' = IF execOK /\ dbOpen
                         THEN Append(packet_logs, PacketRow(task[d].record))
                         ELSE packet_logs
    /\ task' = [task EXCEPT ![d] = TaskAt("recv")]
    /\ UNCHANGED <<now, svc, yielded, resolverCalls, aggVars, deviceIDMap,
                   dbOpen, network_interfaces, application_stats,
                   protocol_stats, saver, flusherNext, loggerOpen, pure,
                   persisted>>


(***************************************************************************)
(* stats.go: updateAppStats, one step per access to shared memory          *)
(***************************************************************************)
\* the entry LoadOrStore stores when the key is new
NewEntry(info) ==
    [ProcessID |-> info.ProcessID, ProcessName |-> info.ProcessName,
     ProcessPath |-> info.ExecutablePath, TotalPackets |-> 0,
     TotalBytes |-> 0, PacketsByProtocol |-> EmptyMap,
     Destinations |-> EmptyMap,
     LastSavedToDB |-> now]

\* key := processName (line 73)
AppKey(info) == info.ProcessName

TaskUnchanged == <<now, svc, yielded, storeCalls, resolverCalls, stats,
                   packetCounter, deviceIDMap, dbVars, flusherNext,
                   loggerOpen, pure, persisted>>

\* lines 66-83: unknown applications are skipped, else get-or-create
updateAppStats(d) ==
    /\ task[d].pc = "updateAppStats"
    /\ LET info == task[d].processInfo
           key == AppKey(info)
       IN  IF info.ProcessName = ""
           THEN /\ task' = [task EXCEPT ![d].pc = "StorePacket"]
                /\ UNCHANGED appStats
           ELSE /\ appStats' = IF key \in DOMAIN appStats THEN appStats
                               ELSE Put(appStats, key, NewEntry(info))
                /\ task' = [task EXCEPT ![d].pc = "appAdd"]
    /\ UNCHANGED <<TaskUnchanged, saver>>

\* appStats.TotalPackets.Add(1); appStats.TotalBytes.Add(bytes)
appAdd(d) ==
    /\ task[d].pc = "appAdd"
    /\ LET key == AppKey(task[d].processInfo)
       IN  appStats' = [appStats EXCEPT
                           ![key].TotalPackets = @ + 1,
                           ![key].TotalBytes = @ + task[d].x.length]
    /\ task' = [task EXCEPT ![d].pc = "appProtoLoad"]
    /\ UNCHANGED <<TaskUnchanged, saver>>

\* protoValue, _ := appStats.PacketsByProtocol.LoadOrStore(protocol, 0)
appProtoLoad(d) ==
    /\ task[d].pc = "appProtoLoad"
    /\ LET key == AppKey(task[d].processInfo)
           proto == task[d].x.protocol
           m == appStats[key].PacketsByProtocol
           m1 == IF proto \in DOMAIN m THEN m ELSE Put(m, proto, 0)
       IN  /\ appStats' = [appStats EXCEPT ![key].PacketsByProtocol = m1]
           /\ task' = [task EXCEPT ![d].protoValue = m1[proto],
                                   ![d].pc = "appProtoStore"]
    /\ UNCHANGED <<TaskUnchanged, saver>>

\* appStats.PacketsByProtocol.Store(protocol, protoValue.(uint64)+1), and
\* stats.PacketsByProtocol.Store(protocol, value.(uint64)+1)
ProtoStored(current, loaded) == loaded + 1

\* a Destinations that stores every destination it is given
StoreDestination_always(m, destination) == Put(m, destination, TRUE)

\* lines 94-96: if destination != "" { appStats.Destinations.Store(.., true) }
StoreDestination(m, destination) ==
    IF destination # <<>> THEN Put(m, destination, TRUE) ELSE m

\* lines 212-217: the slice the Range over Destinations appends the keys to,
\* in any order the Range visits them
DestinationSlices(m) ==
    {q \in [1..Cardinality(DOMAIN m) -> DOMAIN m] :
        \A i, j \in 1..Cardinality(DOMAIN m) : q[i] = q[j] => i = j}

\* lines 91-96: the Store of the protocol count, then the destination is
\* added to the set unless it is empty
appProtoStore(d) ==
    /\ task[d].pc = "appProtoStore"
    /\ LET key == AppKey(task[d].processInfo)
           proto == task[d].x.protocol
           destination == task[d].x.dst
       IN  appStats' = [appStats EXCEPT
               ![key].PacketsByProtocol =
                   Put(@, proto, ProtoStored(@[proto], task[d].protoValue)),
               ![key].Destinations = StoreDestination(@, destination)]
    /\ task' = [task EXCEPT ![d].pc = "appThreshold"]
    /\ UNCHANGED <<TaskUnchanged, saver>>

\* if time.Since(appStats.LastSavedToDB) > saveInterval { go saveAppStatsToDB }
appThreshold(d) ==
    /\ task[d].pc = "appThreshold"
    /\ LET key == AppKey(task[d].processInfo)
       IN  IF now - appStats[key].LastSavedToDB > saveInterval
           THEN \E a \in AsyncIds :
                   /\ saver[Async(a)].pc = "idle"
                   /\ saver' = [saver EXCEPT ![Async(a)] =
                         [SaverIdle EXCEPT !.pc = "saveAppStatsToDB",
                                           !.key = key]]
                   /\ task' = [task EXCEPT ![d].pc = "appMarkSaved"]
           ELSE /\ task' = [task EXCEPT ![d].pc = "StorePacket"]
                /\ UNCHANGED saver
    /\ UNCHANGED <<TaskUnchanged, appStats>>

\* appStats.LastSavedToDB = time.Now()
appMarkSaved(d) ==
    /\ task[d].pc = "appMarkSaved"
    /\ LET key == AppKey(task[d].processInfo)
       IN  appStats' = [appStats EXCEPT ![key].LastSavedToDB = now]
    /\ task' = [task EXCEPT ![d].pc = "StorePacket"]
    /\ UNCHANGED <<TaskUnchanged, saver>>


(***************************************************************************)
(* capture.go, lines 650..1002: processPacket updates the global           *)
(* statistics before the lookup, and createAndStorePacket gives up on a    *)
(* device without an id.                                                   *)
(***************************************************************************)
\* processPacket, lines 960-965: decode the next frame, drop it if invalid
processPacket_v3(d, env) ==
    /\ task[d].pc = "recv"
    /\ FramesYielded < MaxFrames
    /\ \E f \in env.frames :
          LET x == extractNetworkInfo(f)
          IN  /\ yielded' = [yielded EXCEPT ![d] = Append(@, f)]
              /\ task' = IF ~x.valid THEN task
                         ELSE [task EXCEPT ![d].x = x,
                                           ![d].pc = "updateStats"]
    /\ UNCHANGED <<now, svc, storeCalls, resolverCalls, aggVars, deviceIDMap,
                   dbVars, saver, flusherNext, loggerOpen, pure, persisted>>

\* an updateStats that stores the packet's values instead of adding them
updateStats_store(d) ==
    /\ task[d].pc = "updateStats"
    /\ stats' = [stats EXCEPT !.TotalPackets = 1,
                              !.TotalBytes = task[d].x.length]
    /\ task' = [task EXCEPT ![d].pc = "incrementProtocolCount"]
    /\ UNCHANGED <<now, svc, yielded, storeCalls, resolverCalls, appStats,
                   packetCounter, deviceIDMap, dbVars, saver, flusherNext,
                   loggerOpen, pure, persisted>>

\* updateStats, stats.go lines 60-63
updateStats(d) ==
    /\ task[d].pc = "updateStats"
    /\ stats' = [stats EXCEPT !.TotalPackets = @ + 1,
                              !.TotalBytes = @ + task[d].x.length]
    /\ task' = [task EXCEPT ![d].pc = "incrementProtocolCount"]
    /\ UNCHANGED <<now, svc, yielded, storeCalls, resolverCalls, appStats,
                   packetCounter, deviceIDMap, dbVars, saver, flusherNext,
                   loggerOpen, pure, persisted>>

\* incrementProtocolCount, stats.go line 50: the LoadOrStore
incrementProtocolCount(d) ==
    /\ task[d].pc = "incrementProtocolCount"
    /\ LET proto == task[d].x.protocol
           m == stats.PacketsByProtocol
           m1 == IF proto \in DOMAIN m THEN m ELSE Put(m, proto, 0)
       IN  /\ stats' = [stats EXCEPT !.PacketsByProtocol = m1]
           /\ task' = [task EXCEPT ![d].protoValue = m1[proto],
                                   ![d].pc = "incrementProtocolStore"]
    /\ UNCHANGED <<now, svc, yielded, storeCalls, resolverCalls, appStats,
                   packetCounter, deviceIDMap, dbVars, saver, flusherNext,
                   loggerOpen, pure, persisted>>

\* incrementProtocolCount, stats.go line 51: the Store
incrementProtocolStore(d) ==
    /\ task[d].pc = "incrementProtocolStore"
    /\ LET proto == task[d].x.protocol
       IN  stats' = [stats EXCEPT !.PacketsByProtocol =
                        Put(@, proto, ProtoStored(@[proto], task[d].protoValue))]
    /\ task' = [task EXCEPT ![d].protoValue = 0,
                            ![d].pc = "createAndStorePacket"]
    /\ UNCHANGED <<now, svc, yielded, storeCalls, resolverCalls, appStats,
                   packetCounter, deviceIDMap, dbVars, saver, flusherNext,
                   loggerOpen, pure, persisted>>

\* processPacket, lines 971-1001, and createAndStorePacket, lines 848-887:
\* the packet counter, the save every 1000 packets, the classification and
\* the lookup; without a device id the packet is given up
createAndStorePacket(d, env) ==
    /\ task[d].pc = "createAndStorePacket"
    /\ packetCounter' = packetCounter + 1
    /\ IF packetCounter' % SaveEveryPackets = 0
       THEN \E a \in AsyncIds :
               /\ saver[Async(a)].pc = "idle"
               /\ saver' = [saver EXCEPT ![Async(a)] = SaveAllCalled]
       ELSE UNCHANGED saver
    /\ LET x == task[d].x
       IN  \E direction \in DirectionsFor(x.src, x.dst, env.enums) :
           \E look \in LookupsFor(x, direction, env.results) :
              /\ resolverCalls' = [resolverCalls EXCEPT ![d] =
                                      @ + Len(look.calls)]
              /\ task' = [task EXCEPT ![d] =
                    IF d \notin DOMAIN deviceIDMap THEN TaskAt("recv")
                    ELSE createPacketRecord(d, x, direction, look)]
    /\ UNCHANGED <<now, svc, yielded, storeCalls, stats, appStats,
                   deviceIDMap, dbVars, flusherNext, loggerOpen, pure,
                   persisted>>


(***************************************************************************)
(* stats.go: the flushes.  A saver is a goroutine running                  *)
(* SaveAllStatsToDB (the periodic flusher, StopCapture, the every-1000-    *)
(* packets save of lines 975-978) or one saveAppStatsToDB (the threshold   *)
(* flush of updateAppStats).                                               *)
(***************************************************************************)
SaverUnchanged == <<now, svc, pipeVars, packetCounter, deviceIDMap, dbOpen,
                    network_interfaces, packet_logs, loggerOpen, pure,
                    persisted>>

\* saveStatsPeriodically, lines 261-272: on a tick, save if any entry exists
saveStatsPeriodically ==
    /\ saver[Flusher].pc = "idle"
    /\ now >= flusherNext
    /\ flusherNext' = flusherNext + saveInterval
    /\ saver' = IF DOMAIN appStats # {}
                THEN [saver EXCEPT ![Flusher] = SaveAllCalled]
                ELSE saver
    /\ UNCHANGED <<SaverUnchanged, stats, appStats, application_stats,
                   protocol_stats>>

\* SaveAllStatsToDB, lines 136-156: count the entries, return if none
SaveAllStatsToDB(s) ==
    /\ saver[s].pc = "SaveAllStatsToDB"
    /\ saver' = [saver EXCEPT ![s] =
                    IF DOMAIN appStats = {} THEN SaverIdle
                    ELSE [@ EXCEPT !.pc = "range", !.todo = DOMAIN appStats]]
    /\ UNCHANGED <<SaverUnchanged, stats, appStats, application_stats,
                   protocol_stats, flusherNext>>

\* SaveAllStatsToDB, lines 158-190: the next entry of the Range, skipped if
\* it has no packets; after the last one the global LastSavedToDB is set
SaveAllNext(s) ==
    /\ saver[s].pc = "range"
    /\ IF saver[s].todo = {}
       THEN /\ stats' = [stats EXCEPT !.LastSavedToDB = now]
            /\ saver' = [saver EXCEPT ![s] = SaverIdle]
       ELSE /\ \E key \in saver[s].todo :
                  saver' = [saver EXCEPT
                     ![s].todo = @ \ {key},
                     ![s].key = key,
                     ![s].pc = IF appStats[key].TotalPackets = 0
                               THEN "range" ELSE "saveAppStatsToDB"]
            /\ UNCHANGED stats
    /\ UNCHANGED <<SaverUnchanged, appStats, application_stats,
                   protocol_stats, flusherNext>>

\* a SaveAllStatsToDB whose Range ends with the first saveAppStatsToDB
EntryDone_endsRange(sv) == SaverIdle

\* where a saver goes when saveAppStatsToDB returns
EntryDone(sv) == IF sv.all THEN [sv EXCEPT !.pc = "range"] ELSE SaverIdle

\* saveAppStatsToDB, lines 193-233: nothing to do for an entry without
\* packets; else the destinations and the two totals are read into dbStats;
\* json.Marshal of the slice gives an array of its strings in their order
saveAppStatsToDB(s) ==
    /\ saver[s].pc = "saveAppStatsToDB"
    /\ LET e == appStats[saver[s].key]
       IN  \E destinations \in DestinationSlices(e.Destinations) :
              saver' = [saver EXCEPT ![s] =
                 IF e.TotalPackets = 0 THEN EntryDone(@)
                 ELSE [@ EXCEPT !.destinations = destinations,
                                !.TotalPackets = e.TotalPackets,
                                !.TotalBytes = e.TotalBytes,
                                !.pc = "StoreAppStats"]]
    /\ UNCHANGED <<SaverUnchanged, stats, appStats, application_stats,
                   protocol_stats, flusherNext>>

\* rows of application_stats WHERE process_name = ? AND process_id = ?
AppRows(name, pid) ==
    {i \in 1..Len(application_stats) :
        /\ application_stats[i].process_name = name
        /\ application_stats[i].process_id = pid}

\* StoreAppStats, lines 418-446: the UPDATE; an error ends the flush of the
\* entry, no row affected leads to the INSERT
StoreAppStats(s, env) ==
    /\ saver[s].pc = "StoreAppStats"
    /\ \E execOK \in env.statsOK :
       LET e == appStats[saver[s].key]
           hit == AppRows(e.ProcessName, e.ProcessID)
       IN  IF ~dbOpen \/ ~execOK
           THEN /\ saver' = [saver EXCEPT ![s] = EntryDone(@)]
                /\ UNCHANGED application_stats
           ELSE /\ application_stats' =
                      [i \in 1..Len(application_stats) |->
                          IF i \in hit
                          THEN [application_stats[i] EXCEPT
                                   !.total_packets = saver[s].TotalPackets,
                                   !.total_bytes = saver[s].TotalBytes,
                                   !.last_updated = now,
                                   !.destinations = saver[s].destinations,
                                   !.last_seen = now,
                                   !.process_path = e.ProcessPath]
                          ELSE application_stats[i]]
                /\ saver' = [saver EXCEPT
                      ![s].pc = IF hit = {} THEN "insertAppStats"
                                ELSE "StoreProtocolStats",
                      ![s].protoTodo = IF hit = {} THEN {}
                                       ELSE DOMAIN e.PacketsByProtocol]
    /\ UNCHANGED <<SaverUnchanged, stats, appStats, protocol_stats,
                   flusherNext>>

\* StoreAppStats, lines 448-471: the INSERT, refused by UNIQUE(process_name,
\* process_id) if another flush inserted the row meanwhile
insertAppStats(s, env) ==
    /\ saver[s].pc = "insertAppStats"
    /\ \E execOK \in env.statsOK :
       LET e == appStats[saver[s].key]
       IN  IF ~dbOpen \/ ~execOK \/ AppRows(e.ProcessName, e.ProcessID) # {}
           THEN /\ saver' = [saver EXCEPT ![s] = EntryDone(@)]
                /\ UNCHANGED application_stats
           ELSE /\ application_stats' = Append(application_stats,
                      [id |-> Len(application_stats) + 1,
                       process_id |-> e.ProcessID,
                       process_name |-> e.ProcessName,
                       process_path |-> e.ProcessPath,
                       total_packets |-> saver[s].TotalPackets,
                       total_bytes |-> saver[s].TotalBytes,
                       last_updated |-> now,
                       destinations |-> saver[s].destinations,
                       first_seen |-> now,
                       last_seen |-> now])
                /\ saver' = [saver EXCEPT
                      ![s].pc = "StoreProtocolStats",
                      ![s].protoTodo = DOMAIN e.PacketsByProtocol]
    /\ UNCHANGED <<SaverUnchanged, stats, appStats, protocol_stats,
                   flusherNext>>

\* saveAppStatsToDB, lines 241-253, and StoreProtocolStats: the next protocol
\* of the Range is upserted with the count it has now
StoreProtocolStats(s, env) ==
    /\ saver[s].pc = "StoreProtocolStats"
    /\ IF saver[s].protoTodo = {}
       THEN /\ saver' = [saver EXCEPT ![s] = EntryDone(@)]
            /\ UNCHANGED protocol_stats
       ELSE \E protocol \in saver[s].protoTodo, execOK \in env.statsOK :
               LET e == appStats[saver[s].key]
                   hit == AppRows(e.ProcessName, e.ProcessID)
                   appStatsID == application_stats[
                       CHOOSE i \in hit : \A j \in hit : i <= j].id
               IN  /\ saver' = [saver EXCEPT ![s].protoTodo = @ \ {protocol}]
                   /\ protocol_stats' =
                         IF ~dbOpen \/ ~execOK \/ hit = {}
                         THEN protocol_stats
                         ELSE Put(protocol_stats, <<appStatsID, protocol>>,
                                  e.PacketsByProtocol[protocol])
    /\ UNCHANGED <<SaverUnchanged, stats, appStats, application_stats,
                   flusherNext>>

(***************************************************************************)
(* Shutdown and the clock                                                  *)
(***************************************************************************)
MainUnchanged == <<now, pipeVars, aggVars, deviceIDMap, network_interfaces,
                   packet_logs, application_stats, protocol_stats,
                   flusherNext, pure, persisted>>

\* StopCapture, line 236: the final SaveAllStatsToDB, run by the caller
StopCapture ==
    /\ svc = "running"
    /\ svc' = "SaveAllStatsToDB"
    /\ saver' = [saver EXCEPT ![MainSaver] = SaveAllCalled]
    /\ UNCHANGED <<MainUnchanged, dbOpen, loggerOpen>>

\* a StopCapture that closes the store without waiting for SaveAllStatsToDB
CloseDatabase_early ==
    /\ svc = "SaveAllStatsToDB"
    /\ dbOpen' = FALSE
    /\ svc' = "CloseLogger"
    /\ UNCHANGED <<MainUnchanged, saver, loggerOpen>>

\* StopCapture, line 239, once SaveAllStatsToDB has returned
CloseDatabase ==
    /\ svc = "SaveAllStatsToDB"
    /\ saver[MainSaver].pc = "idle"
    /\ dbOpen' = FALSE
    /\ svc' = "CloseLogger"
    /\ UNCHANGED <<MainUnchanged, saver, loggerOpen>>

\* StopCapture, line 240
CloseLogger ==
    /\ svc = "CloseLogger"
    /\ loggerOpen' = FALSE
    /\ svc' = "stopped"
    /\ UNCHANGED <<MainUnchanged, saver, dbOpen>>

\* time passes
Tick ==
    /\ now < MaxTime
    /\ now' = now + TickSeconds
    /\ UNCHANGED <<svc, pipeVars, aggVars, deviceIDMap, dbVars, saver,
                   flusherNext, loggerOpen, pure, persisted>>

(***************************************************************************)
(* The whole service, capture.go lines 1..341: one capture goroutine, the  *)
(* periodic flusher, the threshold flushes and the shutdown.               *)
(***************************************************************************)
Init ==
    /\ PipelineInit
    /\ pure = <<>>

Next ==
    \/ StartCapture(EnvService)
    \/ \E d \in Devices : captureDevice(d, EnvService)
    \/ \E d \in Devices : processPacket(d, EnvService)
    \/ \E d \in Devices : updateAppStats(d)
    \/ \E d \in Devices : appAdd(d)
    \/ \E d \in Devices : appProtoLoad(d)
    \/ \E d \in Devices : appProtoStore(d)
    \/ \E d \in Devices : appThreshold(d)
    \/ \E d \in Devices : appMarkSaved(d)
    \/ \E d \in Devices : StorePacket(d, EnvService)
    \/ saveStatsPeriodically
    \/ \E s \in Savers : SaveAllStatsToDB(s)
    \/ \E s \in Savers : SaveAllNext(s)
    \/ \E s \in Savers : saveAppStatsToDB(s)
    \/ \E s \in Savers : StoreAppStats(s, EnvService)
    \/ \E s \in Savers : insertAppStats(s, EnvService)
    \/ \E s \in Savers : StoreProtocolStats(s, EnvService)
    \/ StopCapture
    \/ CloseDatabase
    \/ CloseLogger
    \/ Tick

Spec == Init /\ [][Next]_vars

(***************************************************************************)
(* Two capture goroutines whose packets the resolver attributes to one     *)
(* process, and the shutdown, in a run shorter than saveInterval.          *)
(***************************************************************************)
NextPair ==
    \/ StartCapture(EnvPair)
    \/ \E d \in Devices : captureDevice(d, EnvPair)
    \/ \E d \in Devices : processPacket(d, EnvPair)
    \/ \E d \in Devices : updateAppStats(d)
    \/ \E d \in Devices : appAdd(d)
    \/ \E d \in Devices : appProtoLoad(d)
    \/ \E d \in Devices : appProtoStore(d)
    \/ \E d \in Devices : appThreshold(d)
    \/ \E d \in Devices : StorePacket(d, EnvPair)
    \/ \E s \in Savers : SaveAllStatsToDB(s)
    \/ \E s \in Savers : SaveAllNext(s)
    \/ \E s \in Savers : saveAppStatsToDB(s)
    \/ \E s \in Savers : StoreAppStats(s, EnvPair)
    \/ \E s \in Savers : insertAppStats(s, EnvPair)
    \/ \E s \in Savers : StoreProtocolStats(s, EnvPair)
    \/ StopCapture
    \/ CloseDatabase
    \/ CloseLogger

SpecPair == Init /\ [][NextPair]_vars

(***************************************************************************)
(* The same two capture goroutines with the clock and the threshold        *)
(* flushes of updateAppStats, without periodic flusher and shutdown.       *)
(***************************************************************************)
NextThreshold ==
    \/ StartCapture(EnvPair)
    \/ \E d \in Devices : captureDevice(d, EnvPair)
    \/ \E d \in Devices : processPacket(d, EnvPair)
    \/ \E d \in Devices : updateAppStats(d)
    \/ \E d \in Devices : appAdd(d)
    \/ \E d \in Devices : appProtoLoad(d)
    \/ \E d \in Devices : appProtoStore(d)
    \/ \E d \in Devices : appThreshold(d)
    \/ \E d \in Devices : appMarkSaved(d)
    \/ \E d \in Devices : StorePacket(d, EnvPair)
    \/ \E s \in Savers : saveAppStatsToDB(s)
    \/ \E s \in Savers : StoreAppStats(s, EnvPair)
    \/ \E s \in Savers : insertAppStats(s, EnvPair)
    \/ \E s \in Savers : StoreProtocolStats(s, EnvPair)
    \/ Tick

SpecThreshold == Init /\ [][NextThreshold]_vars

(***************************************************************************)
(* One capture goroutine whose packets belong to two applications, and the *)
(* shutdown, over a store whose statements can fail.                       *)
(***************************************************************************)
NextFlush ==
    \/ StartCapture(EnvFlush)
    \/ \E d \in Devices : captureDevice(d, EnvFlush)
    \/ \E d \in Devices : processPacket(d, EnvFlush)
    \/ \E d \in Devices : updateAppStats(d)
    \/ \E d \in Devices : appAdd(d)
    \/ \E d \in Devices : appProtoLoad(d)
    \/ \E d \in Devices : appProtoStore(d)
    \/ \E d \in Devices : appThreshold(d)
    \/ \E d \in Devices : StorePacket(d, EnvFlush)
    \/ \E s \in Savers : SaveAllStatsToDB(s)
    \/ \E s \in Savers : SaveAllNext(s)
    \/ \E s \in Savers : saveAppStatsToDB(s)
    \/ \E s \in Savers : StoreAppStats(s, EnvFlush)
    \/ \E s \in Savers : insertAppStats(s, EnvFlush)
    \/ \E s \in Savers : StoreProtocolStats(s, EnvFlush)
    \/ StopCapture
    \/ CloseDatabase
    \/ CloseLogger

SpecFlush == Init /\ [][NextFlush]_vars

(***************************************************************************)
(* The service stopped and started again: the process ends after            *)
(* StopCapture, taking every goroutine and the in-memory statistics with   *)
(* it, and a new process runs init() of stats.go (lines 38-46), which      *)
(* starts from an empty Statistics and loads nothing, and InitDatabase,     *)
(* which opens the same file and creates only the tables that are missing. *)
(* yielded keeps the frames of both runs; storeCalls and resolverCalls are *)
(* those of the running process.                                           *)
(***************************************************************************)
Restart ==
    /\ svc = "stopped"
    /\ now' = 0
    /\ svc' = "start"
    /\ task' = [d \in Devices |-> TaskAt("notStarted")]
    /\ storeCalls' = [d \in Devices |-> <<>>]
    /\ resolverCalls' = [d \in Devices |-> 0]
    /\ stats' = [TotalPackets |-> 0, TotalBytes |-> 0,
                 PacketsByProtocol |-> EmptyMap, LastSavedToDB |-> 0]
    /\ appStats' = EmptyMap
    /\ packetCounter' = 0
    /\ deviceIDMap' = EmptyMap
    /\ dbOpen' = TRUE
    /\ saver' = [s \in Savers |-> SaverIdle]
    /\ flusherNext' = saveInterval
    /\ loggerOpen' = TRUE
    /\ persisted' = application_stats
    /\ UNCHANGED <<yielded, network_interfaces, packet_logs,
                   application_stats, protocol_stats, pure>>

NextRestart == NextPair \/ Restart

SpecRestart == Init /\ [][NextRestart]_vars

(***************************************************************************)
(* The capture goroutines of two interfaces, capture.go lines 1..341, in   *)
(* a run shorter than saveInterval and without shutdown.                   *)
(***************************************************************************)
NextCapture ==
    \/ StartCapture(EnvCapture)
    \/ \E d \in Devices : captureDevice(d, EnvCapture)
    \/ \E d \in Devices : processPacket(d, EnvCapture)
    \/ \E d \in Devices : updateAppStats(d)
    \/ \E d \in Devices : appAdd(d)
    \/ \E d \in Devices : appProtoLoad(d)
    \/ \E d \in Devices : appProtoStore(d)
    \/ \E d \in Devices : appThreshold(d)
    \/ \E d \in Devices : StorePacket(d, EnvCapture)

SpecCapture == Init /\ [][NextCapture]_vars

(***************************************************************************)
(* The capture goroutines of two interfaces, capture.go lines 650..1002,   *)
(* in a run shorter than saveInterval and without shutdown.                *)
(***************************************************************************)
NextCapture3 ==
    \/ StartCapture(EnvCapture)
    \/ \E d \in Devices : captureDevice(d, EnvCapture)
    \/ \E d \in Devices : processPacket_v3(d, EnvCapture)
    \/ \E d \in Devices : updateStats(d)
    \/ \E d \in Devices : incrementProtocolCount(d)
    \/ \E d \in Devices : incrementProtocolStore(d)
    \/ \E d \in Devices : createAndStorePacket(d, EnvCapture)
    \/ \E d \in Devices : updateAppStats(d)
    \/ \E d \in Devices : appAdd(d)
    \/ \E d \in Devices : appProtoLoad(d)
    \/ \E d \in Devices : appProtoStore(d)
    \/ \E d \in Devices : appThreshold(d)
    \/ \E d \in Devices : StorePacket(d, EnvCapture)

SpecCapture3 == Init /\ [][NextCapture3]_vars

(***************************************************************************)
(* Properties of the pipeline                                              *)
(***************************************************************************)
\* the frame has a network layer and a transport layer
HasBothLayers(f) == f.net /\ f.transport

\* the frames with both layers among those the source of d yielded, in order
ValidYielded(d) == SelectSeq(yielded[d], HasBothLayers)

RECURSIVE SumLengths(_)
SumLengths(fs) ==
    IF fs = <<>> THEN 0 ELSE Head(fs).length + SumLengths(Tail(fs))

\* the valid frames of protocol p yielded so far, over all interfaces
YieldedOf(p) ==
    SumOver([d \in Devices |->
               Cardinality({i \in 1..Len(ValidYielded(d)) :
                              ValidYielded(d)[i].protocol = p})], Devices)

\* the completed updateAppStats calls for application key and protocol p
AttributedOf(key, p) ==
    SumOver([d \in Devices |->
               Cardinality({i \in 1..Len(storeCalls[d]) :
                              /\ storeCalls[d][i].ProcessName = key
                              /\ storeCalls[d][i].Protocol = p})], Devices)

\* the count a histogram holds for p
CountOf(m, p) == IF p \in DOMAIN m THEN m[p] ELSE 0

FrameProtocols == {f.protocol : f \in Frames}

\* C1: at every reachable state, also between the steps taken for one packet,
\* the sum over all protocol names of the global PacketsByProtocol counters
\* equals the global TotalPackets counter
C1_HistogramSumsToTotal ==
    SumOver(stats.PacketsByProtocol, DOMAIN stats.PacketsByProtocol)
        = stats.TotalPackets

\* no goroutine is in the middle of a packet and the histogram has lost an
\* increment
C1_LostAtRest ==
    /\ \A d \in Devices : Idle(d)
    /\ SumOver(stats.PacketsByProtocol, DOMAIN stats.PacketsByProtocol)
          < stats.TotalPackets

\* C2: once the n increments of a protocol key that concurrently running
\* goroutines execute (incrementProtocolCount on the global histogram, the
\* protocol increment of updateAppStats on an application's) have all
\* completed, the stored counter of the key has grown by exactly n
C2_IncrementsNotLost ==
    (\A d \in Devices : Idle(d)) =>
        /\ \A p \in FrameProtocols :
              CountOf(stats.PacketsByProtocol, p) = YieldedOf(p)
        /\ \A key \in DOMAIN appStats : \A p \in FrameProtocols :
              CountOf(appStats[key].PacketsByProtocol, p) = AttributedOf(key, p)

\* rows of application_stats for (name, pid) that carry these totals
RowsWith(name, pid, packets, bytes) ==
    {i \in AppRows(name, pid) :
        /\ application_stats[i].total_packets = packets
        /\ application_stats[i].total_bytes = bytes}

\* the step in which SaveAllStatsToDB of saver s returns
SaveAllReturns(s) ==
    /\ saver[s].pc = "range"
    /\ saver[s].todo = {}
    /\ saver'[s].pc = "idle"

\* C3: at the moment a SaveAllStatsToDB returns with the store open, every
\* application entry with at least one packet has its application_stats row,
\* whose total_packets and total_bytes equal the entry's counters as loaded
\* at that moment, whatever updateAppStats calls and asynchronous flushes ran
\* meanwhile
C3_FlushEquivalence ==
    [][\A s \in Savers :
          (SaveAllReturns(s) /\ dbOpen) =>
              \A key \in DOMAIN appStats :
                 appStats[key].TotalPackets >= 1 =>
                    RowsWith(appStats[key].ProcessName,
                             appStats[key].ProcessID,
                             appStats[key].TotalPackets,
                             appStats[key].TotalBytes) # {}]_vars

\* C7: a valid packet whose lookup failed goes straight to StorePacket with a
\* record whose process columns are stored as NULL; the goroutine's next step
\* is that one StorePacket call, after which it is back at its packet source;
\* neither step updates an application entry
C7_LookupFailureNonFatal ==
    [][\A d \in Devices :
          /\ task'[d].lookupErr /\ ~task[d].lookupErr => appStats' = appStats
          /\ task[d].lookupErr =>
                /\ task[d].pc = "StorePacket"
                /\ PacketRow(task[d].record).process_id = Null
                /\ PacketRow(task[d].record).process_name = Null
                /\ PacketRow(task[d].record).process_path = Null
                /\ task'[d] # task[d] =>
                      /\ task'[d] = TaskAt("recv")
                      /\ storeCalls'[d] = Append(storeCalls[d], task[d].record)
                      /\ appStats' = appStats
                      /\ packet_logs' \in
                            {packet_logs,
                             Append(packet_logs, PacketRow(task[d].record))}]_vars

\* the second packet of an interface failed its lookup after the first one,
\* unattributed too, was written with NULL process columns
C7_Witness ==
    \E d \in Devices :
        /\ task[d].lookupErr
        /\ task[d].pc = "StorePacket"
        /\ Len(storeCalls[d]) = 1
        /\ storeCalls[d][1].ProcessName = ""
        /\ Len(packet_logs) = 1
        /\ packet_logs[1].process_id = Null
        /\ packet_logs[1].process_name = Null
        /\ packet_logs[1].process_path = Null
        /\ appStats = EmptyMap

\* C8: the step that takes a frame without a network layer or without a
\* transport layer from the source ends the processing of that frame and
\* changes neither the global counters, nor the protocol histogram, nor an
\* application entry, nor packet_logs, and makes no resolver call
C8_DroppedWithoutEffect ==
    [][\A d \in Devices :
          (/\ Len(yielded'[d]) = Len(yielded[d]) + 1
           /\ ~HasBothLayers(yielded'[d][Len(yielded'[d])])) =>
              /\ task'[d] = task[d]
              /\ stats' = stats
              /\ appStats' = appStats
              /\ packetCounter' = packetCounter
              /\ packet_logs' = packet_logs
              /\ storeCalls' = storeCalls
              /\ resolverCalls' = resolverCalls]_vars

\* an interface yielded a frame without transport layer after a valid one:
\* only the valid one left a row
C8_Witness ==
    \E d \in Devices :
        /\ yielded[d] = <<F_Out, F_NoTransport>>
        /\ Idle(d)
        /\ Len(packet_logs) = 1
        /\ resolverCalls[d] >= 1

\* C9: after any sequence of N packets with both layers, the global
\* TotalPackets is N, the global TotalBytes the sum of their lengths and the
\* global histogram counts each protocol's packets
C9_GlobalCounters ==
    (\A d \in Devices : Idle(d)) =>
        /\ stats.TotalPackets =
              SumOver([d \in Devices |-> Len(ValidYielded(d))], Devices)
        /\ stats.TotalBytes =
              SumOver([d \in Devices |-> SumLengths(ValidYielded(d))], Devices)
        /\ \A p \in FrameProtocols :
              CountOf(stats.PacketsByProtocol, p) = YieldedOf(p)

\* the record is the one of the frame
RecordOf(rec, f) ==
    LET x == extractNetworkInfo(f)
    IN  /\ rec.SrcIP = x.src /\ rec.SrcPort = x.srcPort
        /\ rec.DstIP = x.dst /\ rec.DstPort = x.dstPort
        /\ rec.Protocol = x.protocol /\ rec.Length = x.length

\* t extends s at its end
Extends(t, s) == Len(t) >= Len(s) /\ SubSeq(t, 1, Len(s)) = s

\* the StorePacket calls of each interface are the valid frames its source
\* yielded, one call each and in the order of capture
C10_InCaptureOrder ==
    \A d \in Devices :
        LET v == ValidYielded(d)
            n == IF Idle(d) THEN Len(v) ELSE Len(v) - 1
        IN  /\ Len(storeCalls[d]) = n
            /\ \A i \in 1..n : RecordOf(storeCalls[d][i], v[i])

\* C10: for each interface the sequence of StorePacket calls of its capture
\* goroutine equals the sequence of valid packets its source yielded, each
\* appended once and in capture order, and what was appended is never
\* changed afterwards
C10_AppendedOnceInOrder ==
    /\ []C10_InCaptureOrder
    /\ [][/\ \A d \in Devices : Extends(storeCalls'[d], storeCalls[d])
          /\ Extends(packet_logs', packet_logs)]_vars

\* each of the two interfaces has appended the one valid packet its source
\* yielded, the second interface first
C10_Witness ==
    /\ Len(storeCalls["eth0"]) = 1
    /\ Len(storeCalls["wlan0"]) = 1
    /\ yielded["eth0"] = <<F_Out>>
    /\ yielded["wlan0"] = <<F_Loop>>
    /\ Len(packet_logs) = 2
    /\ packet_logs[1].src_port = <<"5","3">>
    /\ packet_logs[2].src_port = <<"5","5","5","5">>

\* C11: every row the running pipeline wrote to packet_logs has a device_id
\* that is the id of a network_interfaces row, whatever the outcome of the
\* StoreInterface call of the interface the packet came from
C11_DeviceIdReferencesInterface ==
    \A i \in 1..Len(packet_logs) :
        \E j \in 1..Len(network_interfaces) :
            network_interfaces[j].id = packet_logs[i].device_id

\* the (process name, process id) pairs of the attributed packets that
\* completed updateAppStats
AttributedPairs ==
    UNION {{<<storeCalls[d][i].ProcessName, storeCalls[d][i].ProcessID>> :
               i \in {k \in 1..Len(storeCalls[d]) :
                         storeCalls[d][k].ProcessName # ""}} : d \in Devices}

\* the StorePacket calls of all interfaces attributed to the pair
PacketsOfPair(pair) ==
    SumOver([d \in Devices |->
               Cardinality({i \in 1..Len(storeCalls[d]) :
                              /\ storeCalls[d][i].ProcessName = pair[1]
                              /\ storeCalls[d][i].ProcessID = pair[2]})],
            Devices)

\* C12: the aggregator keeps one entry for each (process name, process id)
\* pair with an attributed packet, and the entry counts the packets of that
\* pair only, also when two processes share a name and differ in their pid
C12_OneEntryPerNameAndPid ==
    (\A d \in Devices : Idle(d)) =>
        \A pair \in AttributedPairs :
            \E key \in DOMAIN appStats :
                /\ appStats[key].ProcessName = pair[1]
                /\ appStats[key].ProcessID = pair[2]
                /\ appStats[key].TotalPackets = PacketsOfPair(pair)

\* sum of packet_count over the protocol_stats rows referencing a row id
ProtocolSum(id) ==
    SumOver(protocol_stats, {k \in DOMAIN protocol_stats : k[1] = id})

\* no updateAppStats has run since the SaveAllStatsToDB of saver s started:
\* every capture goroutine was between two packets then, and no packet source
\* has yielded a frame since
QuietSinceStart(s) ==
    /\ saver[s].startIdle
    /\ saver[s].startYielded = FramesYielded

\* C13: when a SaveAllStatsToDB returns with the store open and no
\* updateAppStats has run since it started, every application_stats row has
\* total_packets equal to the sum of packet_count over the protocol_stats rows
\* that reference it, whatever concurrent updateAppStats calls preceded it
C13_TablesAgree ==
    [][\A s \in Savers :
          (SaveAllReturns(s) /\ QuietSinceStart(s) /\ dbOpen) =>
              \A i \in 1..Len(application_stats) :
                 application_stats[i].total_packets =
                    ProtocolSum(application_stats[i].id)]_vars

\* total length of the StorePacket calls of all interfaces attributed to the
\* pair
BytesOfPair(pair) ==
    SumOver([d \in Devices |->
               SumOver([i \in 1..Len(storeCalls[d]) |->
                          IF /\ storeCalls[d][i].ProcessName = pair[1]
                             /\ storeCalls[d][i].ProcessID = pair[2]
                          THEN storeCalls[d][i].Length ELSE 0],
                       1..Len(storeCalls[d]))],
            Devices)

\* C14: for a row the process found in application_stats when it started,
\* holding total_packets = P and total_bytes = B: when a SaveAllStatsToDB
\* returns with the store open, no updateAppStats having run since it
\* started, and n >= 1 packets of total length b have been attributed to the
\* row's application since the start, the row holds P + n and B + b
C14_CountersResume ==
    [][\A s \in Savers :
          (SaveAllReturns(s) /\ QuietSinceStart(s) /\ dbOpen) =>
              \A i \in 1..Len(persisted) :
                 LET pair == <<persisted[i].process_name,
                               persisted[i].process_id>>
                 IN  PacketsOfPair(pair) >= 1 =>
                        RowsWith(pair[1], pair[2],
                                 persisted[i].total_packets
                                    + PacketsOfPair(pair),
                                 persisted[i].total_bytes
                                    + BytesOfPair(pair)) # {}]_vars

\* C15: whenever the flusher's ticker fires, SaveAllStatsToDB is called iff
\* at least one application entry exists; and when the flusher's
\* SaveAllStatsToDB returns with the store open, no updateAppStats having
\* run since it started, no other flush in progress, and the N >= 1
\* attributed packets of the run all belong to one application and one
\* protocol, application_stats holds
\* exactly one row, with total_packets = N, and protocol_stats exactly one
\* row, with packet_count = N
C15_FlusherCycle ==
    [][/\ flusherNext' # flusherNext =>
             (saver'[Flusher].pc = "SaveAllStatsToDB" <=> DOMAIN appStats # {})
       /\ (/\ SaveAllReturns(Flusher)
           /\ QuietSinceStart(Flusher)
           /\ \A s \in Savers \ {Flusher} : saver[s].pc = "idle"
           /\ dbOpen
           /\ Cardinality(AttributedPairs) = 1
           /\ Cardinality({p \in FrameProtocols :
                  \E key \in DOMAIN appStats : AttributedOf(key, p) >= 1}) = 1)
          => \A pair \in AttributedPairs :
                /\ Len(application_stats) = 1
                /\ application_stats[1].total_packets = PacketsOfPair(pair)
                /\ Cardinality(DOMAIN protocol_stats) = 1
                /\ \A k \in DOMAIN protocol_stats :
                      protocol_stats[k] = PacketsOfPair(pair)]_vars

\* goroutine d has scheduled a flush of the entry and not yet stored the new
\* LastSavedToDB (between lines 101 and 102)
ScheduledUnmarked(d, key) ==
    /\ task[d].pc = "appMarkSaved"
    /\ AppKey(task[d].processInfo) = key

\* C16: updateAppStats schedules a flush of an entry only when more than
\* saveInterval has elapsed since the entry's LastSavedToDB, and never while
\* another updateAppStats call has scheduled a flush of the same entry from
\* the same LastSavedToDB and not yet updated it
C16_ThresholdSerialized ==
    [][\A d \in Devices :
          (task[d].pc = "appThreshold" /\ task'[d].pc = "appMarkSaved") =>
              LET key == AppKey(task[d].processInfo)
              IN  /\ now - appStats[key].LastSavedToDB > saveInterval
                  /\ \A d2 \in Devices \ {d} : ~ScheduledUnmarked(d2, key)]_vars

\* the step writes nothing to the two statistics tables
NoStatsWrite ==
    /\ application_stats' = application_stats
    /\ protocol_stats' = protocol_stats

\* C17: the Range of a SaveAllStatsToDB starts with every entry present; each
\* of its steps takes one entry, which is handed to saveAppStatsToDB unless
\* it has no packets; visiting or flushing an entry without packets writes
\* nothing; however the flush of an entry ends, store error included, the
\* saver returns to the Range with the remaining entries, and
\* SaveAllStatsToDB returns only when none remains or none was present
C17_EveryEntryVisited ==
    [][\A s \in Savers :
          saver[s].all =>
             /\ (saver[s].pc = "SaveAllStatsToDB" /\ saver'[s].pc = "range")
                   => saver'[s].todo = DOMAIN appStats
             /\ (saver[s].pc = "range" /\ saver'[s] # saver[s]
                                       /\ saver[s].todo # {}) =>
                   \E key \in saver[s].todo :
                      /\ saver'[s].todo = saver[s].todo \ {key}
                      /\ IF appStats[key].TotalPackets = 0
                         THEN saver'[s].pc = "range" /\ NoStatsWrite
                         ELSE /\ saver'[s].pc = "saveAppStatsToDB"
                              /\ saver'[s].key = key
             /\ (saver[s].pc = "saveAppStatsToDB"
                    /\ appStats[saver[s].key].TotalPackets = 0
                    /\ saver'[s] # saver[s])
                   => saver'[s].pc = "range" /\ NoStatsWrite
             /\ (saver[s].pc \in {"saveAppStatsToDB", "StoreAppStats",
                                  "insertAppStats", "StoreProtocolStats"}
                    /\ saver'[s] # saver[s]) =>
                   /\ saver'[s].todo = saver[s].todo
                   /\ saver'[s].all
                   /\ saver'[s].pc \in {"range", "StoreAppStats",
                                        "insertAppStats", "StoreProtocolStats"}
             /\ saver'[s].pc = "idle" =>
                   \/ SaveAllReturns(s)
                   \/ saver[s].pc = "SaveAllStatsToDB" /\ DOMAIN appStats = {}]_vars

\* a SaveAllStatsToDB that started with the goroutines between packets has
\* visited curl, whose flush failed and left no row, and went on to dnsd, the
\* last entry, whose row it has written
C17_Witness ==
    LET sv == saver[MainSaver]
    IN  /\ sv.all /\ sv.startIdle
        /\ sv.pc = "StoreProtocolStats"
        /\ sv.key = "dnsd"
        /\ sv.todo = {}
        /\ DOMAIN appStats = {"curl", "dnsd"}
        /\ appStats["curl"].TotalPackets = 1
        /\ AppRows("curl", 42) = {}
        /\ AppRows("dnsd", 17) # {}

\* C18: the store is open and the log sink is open until the final
\* SaveAllStatsToDB of StopCapture has been called and has returned; the
\* store is closed only then, and the log sink only after the store
C18_ShutdownOrder ==
    /\ svc \in {"start", "running", "SaveAllStatsToDB"} =>
          dbOpen /\ loggerOpen
    /\ ~dbOpen =>
          /\ svc \in {"CloseLogger", "stopped"}
          /\ saver[MainSaver].pc = "idle"
    /\ ~loggerOpen => ~dbOpen /\ svc = "stopped"

\* the service has stopped at second 0, when neither the periodic flusher
\* nor a threshold flush can have run: the row is the final drain's
C18_Witness ==
    /\ svc = "stopped"
    /\ ~dbOpen /\ ~loggerOpen
    /\ now = 0
    /\ RowsWith("curl", 42, 1, 120) # {}

\* C19: once StopCapture has closed the store, the packet sources are closed
\* and the capture goroutines have ended: no goroutine takes a frame from
\* its source, calls StorePacket or writes an application entry
C19_QuietAfterClose ==
    [][~dbOpen =>
          /\ yielded' = yielded
          /\ storeCalls' = storeCalls
          /\ appStats' = appStats]_vars

\* C20: the step of a capture goroutine that calls StorePacket makes exactly
\* one call, appends the packet's row or, on an error, nothing, and in both
\* cases leaves the goroutine at its packet source, ready for the next
\* packet; the goroutines of the other interfaces, their frames and their
\* calls are untouched
C20_StoreErrorNotFatal ==
    [][\A d \in Devices :
          (task[d].pc = "StorePacket" /\ task'[d] # task[d]) =>
              /\ task'[d] = TaskAt("recv")
              /\ storeCalls'[d] = Append(storeCalls[d], task[d].record)
              /\ packet_logs' \in
                    {packet_logs,
                     Append(packet_logs, PacketRow(task[d].record))}
              /\ yielded' = yielded
              /\ \A d2 \in Devices \ {d} :
                    /\ task'[d2] = task[d2]
                    /\ storeCalls'[d2] = storeCalls[d2]]_vars

\* StorePacket failed for the first packet of eth0, and the second one, a
\* different record, has been processed and is the only row of packet_logs
C20_Witness ==
    /\ Len(storeCalls["eth0"]) = 2
    /\ storeCalls["wlan0"] = <<>>
    /\ task["eth0"] = TaskAt("recv")
    /\ Len(packet_logs) = 1
    /\ packet_logs[1] = PacketRow(storeCalls["eth0"][2])
    /\ packet_logs[1] # PacketRow(storeCalls["eth0"][1])

\* C21: in every step of every goroutine the global TotalPackets and
\* TotalBytes stay as they are or grow
C21_CountersMonotone ==
    [][/\ stats'.TotalPackets >= stats.TotalPackets
       /\ stats'.TotalBytes >= stats.TotalBytes]_vars

\* two packets of different lengths have been counted, the shorter one last
C21_Witness ==
    /\ stats.TotalPackets = 2
    /\ stats.TotalBytes = 190
    /\ yielded["eth0"] = <<F_Out, F_Loop>>


\* the keys of application_stats
StoredPairs ==
    {<<application_stats[i].process_name, application_stats[i].process_id>> :
        i \in 1..Len(application_stats)}

\* C33: application_stats holds one row for each (process_name, process_id)
\* that was stored, and a StoreAppStats call that goes on to its INSERT on
\* an open store, because its UPDATE found no row, completes without error,
\* that is, the INSERT adds the row, also when another flush is storing the
\* same pair
C33_UpsertRace ==
    [][/\ \A i, j \in 1..Len(application_stats') :
             (/\ application_stats'[i].process_name
                    = application_stats'[j].process_name
              /\ application_stats'[i].process_id
                    = application_stats'[j].process_id) => i = j
       /\ \A s \in Savers :
             (saver[s].pc = "insertAppStats" /\ saver'[s] # saver[s] /\ dbOpen)
                => Len(application_stats') = Len(application_stats) + 1]_vars

\* the part of C33 that holds: no two rows of application_stats have the
\* same (process_name, process_id), and a pair whose UPDATE or INSERT has
\* been executed on an open store has its row
C33_OneRowPerKey ==
    [][/\ \A i, j \in 1..Len(application_stats') :
             (/\ application_stats'[i].process_name
                    = application_stats'[j].process_name
              /\ application_stats'[i].process_id
                    = application_stats'[j].process_id) => i = j
       /\ \A s \in Savers :
             (saver[s].pc = "insertAppStats" /\ saver'[s] # saver[s] /\ dbOpen)
                => <<appStats[saver[s].key].ProcessName,
                     appStats[saver[s].key].ProcessID>> \in StoredPairs']_vars


\* C36: for every (process_name, process_id), the total_packets and
\* total_bytes stored in application_stats never decrease from one write
\* to the next, whatever the interleaving of the periodic, the asynchronous
\* and the shutdown flush
C36_TotalsMonotone ==
    [][\A i \in 1..Len(application_stats) :
          /\ i <= Len(application_stats')
          /\ application_stats'[i].total_packets
                >= application_stats[i].total_packets
          /\ application_stats'[i].total_bytes
                >= application_stats[i].total_bytes]_vars

(***************************************************************************)
(* determinePacketDirection as a function of its arguments and of the      *)
(* answers the two isLocalIP calls get from the interface enumeration.     *)
(***************************************************************************)
InitDirection ==
    /\ PipelineInit
    /\ pure \in {[fn |-> "determinePacketDirection", srcIP |-> s, dstIP |-> d,
                  enumSrc |-> e1, enumDst |-> e2, done |-> FALSE, out |-> ""] :
                    s \in IPs, d \in IPs,
                    e1 \in Enumerations, e2 \in Enumerations}

applyDirection ==
    /\ ~pure.done
    /\ pure' = [pure EXCEPT
                  !.done = TRUE,
                  !.out = determinePacketDirection(pure.srcIP, pure.dstIP,
                                                   pure.enumSrc, pure.enumDst)]
    /\ UNCHANGED <<now, svc, pipeVars, aggVars, deviceIDMap, dbVars, saver,
                   flusherNext, loggerOpen, persisted>>

NextDirection == applyDirection

SpecDirection == InitDirection /\ [][NextDirection]_vars

\* the addresses one enumeration shows as bound to a local interface
BoundAddrs(enum) ==
    IF enum.err THEN {}
    ELSE UNION {{enum.ifaces[i].addrs[j] :
                    j \in 1..Len(enum.ifaces[i].addrs)} :
                  i \in {k \in 1..Len(enum.ifaces) : ~enum.ifaces[k].err}}

\* the set L of a call: the loopback addresses and the bound addresses
LocallyBound(enum) ==
    {ip \in IPs : HasPrefix(ip, <<"1","2","7",".">>)} \cup {IP_Loop6}
        \cup BoundAddrs(enum)

\* C4: for every pair (src, dst) and every set L of locally bound addresses
\* that the classification observes, determinePacketDirection returns
\* exactly one of the four values: internal iff src and dst are in L,
\* outgoing iff only src is, incoming iff only dst is, external iff neither
C4_DecisionTable ==
    (pure.done /\ LocallyBound(pure.enumSrc) = LocallyBound(pure.enumDst)) =>
        LET L == LocallyBound(pure.enumSrc)
            s == pure.srcIP \in L
            d == pure.dstIP \in L
        IN  /\ pure.out \in Directions
            /\ pure.out = "internal" <=> (s /\ d)
            /\ pure.out = "outgoing" <=> (s /\ ~d)
            /\ pure.out = "incoming" <=> (~s /\ d)
            /\ pure.out = "external" <=> (~s /\ ~d)

\* a packet from a remote address to an address bound to an interface of the
\* host has been classified as incoming
C4_Witness ==
    /\ pure.done
    /\ LocallyBound(pure.enumSrc) = LocallyBound(pure.enumDst)
    /\ pure.srcIP = IP_Remote
    /\ pure.dstIP = IP_Host2
    /\ IP_Host2 \in BoundAddrs(pure.enumDst)
    /\ pure.out = "incoming"

(***************************************************************************)
(* lookupProcessInfo as a function of its arguments and of the resolver's  *)
(* answers.                                                                *)
(***************************************************************************)
LookupProtocols == {"TCP", "UDP", "SCTP"}
LookupPorts == {22, 443, 5555}

InitLookup ==
    /\ PipelineInit
    /\ pure \in {[fn |-> "lookupProcessInfo", protocol |-> pr,
                  srcPortInt |-> sp, dstPortInt |-> dp, direction |-> dir,
                  r |-> r, done |-> FALSE,
                  out |-> [info |-> NilInfo, err |-> FALSE, calls |-> <<>>]] :
                    pr \in LookupProtocols, sp \in LookupPorts,
                    dp \in LookupPorts, dir \in Directions,
                    r \in [1..2 -> ResolverResults]}

applyLookup ==
    /\ ~pure.done
    /\ pure' = [pure EXCEPT
                  !.done = TRUE,
                  !.out = lookupProcessInfo(pure.protocol, pure.srcPortInt,
                                            pure.dstPortInt, pure.direction,
                                            pure.r)]
    /\ UNCHANGED <<now, svc, pipeVars, aggVars, deviceIDMap, dbVars, saver,
                   flusherNext, loggerOpen, persisted>>

NextLookup == applyLookup

SpecLookup == InitLookup /\ [][NextLookup]_vars

\* the packet is left unattributed: no ProcessInfo is returned
Unattributed(out) == out.info.nil

\* C5: the resolver calls lookupProcessInfo makes are, for TCP+outgoing only
\* find_tcp(srcPort, dstPort), for TCP+incoming only find_tcp(dstPort,
\* srcPort), for UDP+outgoing only find_udp(srcPort), for UDP+incoming only
\* find_udp(dstPort), and for any other protocol none, the packet being left
\* unattributed
C5_CallSelection ==
    pure.done =>
        LET sp == pure.srcPortInt
            dp == pure.dstPortInt
        IN  /\ (pure.protocol = "TCP" /\ pure.direction = "outgoing")
                  => pure.out.calls = <<TCPCall(sp, dp)>>
            /\ (pure.protocol = "TCP" /\ pure.direction = "incoming")
                  => pure.out.calls = <<TCPCall(dp, sp)>>
            /\ (pure.protocol = "UDP" /\ pure.direction = "outgoing")
                  => pure.out.calls = <<UDPCall(sp)>>
            /\ (pure.protocol = "UDP" /\ pure.direction = "incoming")
                  => pure.out.calls = <<UDPCall(dp)>>
            /\ pure.protocol \notin {"TCP", "UDP"}
                  => pure.out.calls = <<>> /\ Unattributed(pure.out)

\* an incoming TCP packet has been looked up by its destination port alone
C5_Witness ==
    /\ pure.done
    /\ pure.protocol = "TCP"
    /\ pure.direction = "incoming"
    /\ pure.srcPortInt = 443
    /\ pure.dstPortInt = 5555
    /\ pure.out.calls = <<TCPCall(5555, 443)>>
    /\ ~Unattributed(pure.out)

\* the call of the source-port side and the one of the destination-port side
SrcSideCall(p) ==
    IF p.protocol = "TCP" THEN TCPCall(p.srcPortInt, p.dstPortInt)
    ELSE UDPCall(p.srcPortInt)
DstSideCall(p) ==
    IF p.protocol = "TCP" THEN TCPCall(p.dstPortInt, p.srcPortInt)
    ELSE UDPCall(p.dstPortInt)

MaxCalls == 3

DestinationArgs == {<<>>, IP_Remote, IP_Host}

InitDestinations ==
    /\ PipelineInit
    /\ pure \in {[fn |-> "Destinations", calls |-> c, i |-> 0,
                  m |-> EmptyMap, done |-> FALSE, json |-> <<>>] :
                    c \in UNION {[1..n -> DestinationArgs] : n \in 0..MaxCalls}}

\* the next updateAppStats call reaches lines 94-96
applyStoreDestination ==
    /\ pure.i < Len(pure.calls)
    /\ pure' = [pure EXCEPT
                  !.i = @ + 1,
                  !.m = StoreDestination(@, pure.calls[pure.i + 1])]
    /\ UNCHANGED <<now, svc, pipeVars, aggVars, deviceIDMap, dbVars, saver,
                   flusherNext, loggerOpen, persisted>>

\* a flush after the last call reaches lines 212-220
marshalDestinations ==
    /\ pure.i = Len(pure.calls)
    /\ ~pure.done
    /\ \E q \in DestinationSlices(pure.m) :
          pure' = [pure EXCEPT !.done = TRUE, !.json = q]
    /\ UNCHANGED <<now, svc, pipeVars, aggVars, deviceIDMap, dbVars, saver,
                   flusherNext, loggerOpen, persisted>>

NextDestinations == applyStoreDestination \/ marshalDestinations

SpecDestinations == InitDestinations /\ [][NextDestinations]_vars

\* the destinations passed by the calls made so far
PassedSoFar == {pure.calls[k] : k \in 1..pure.i}

\* C22: after any sequence of calls the keys of Destinations are the
\* distinct non-empty destinations passed, the empty string is never a key,
\* and the array a flush marshals holds each key once and nothing else
C22_DestinationSet ==
    /\ <<>> \notin DOMAIN pure.m
    /\ DOMAIN pure.m = PassedSoFar \ {<<>>}
    /\ pure.done =>
          /\ Len(pure.json) = Cardinality(PassedSoFar \ {<<>>})
          /\ {pure.json[k] : k \in 1..Len(pure.json)} = PassedSoFar \ {<<>>}
          /\ \A k1, k2 \in 1..Len(pure.json) :
                pure.json[k1] = pure.json[k2] => k1 = k2

\* three calls, two with the same destination and one with the empty
\* string, have left one key, and the flush has marshalled one string
C22_Witness ==
    /\ pure.calls = <<IP_Remote, <<>>, IP_Remote>>
    /\ pure.done
    /\ pure.json = <<IP_Remote>>

(***************************************************************************)
(* util.IsRunningAsAdmin called by concurrent goroutines: adminCheckOnce,  *)
(* a sync.Once (an atomic done flag and a mutex), guards the membership    *)
(* check and the two package variables it writes.                          *)
(***************************************************************************)
\* goroutines calling IsRunningAsAdmin, and calls each of them makes
MaxCallers == 3
MaxCallsEach == 2

Callers == 1..MaxCallers

\* what the membership check can find: AllocateAndInitializeSid fails,
\* token.IsMember fails, or the token is or is not a member
AdminOutcomes ==
    {[member |-> FALSE, err |-> "AllocateAndInitializeSid"],
     [member |-> FALSE, err |-> "IsMember"],
     [member |-> TRUE, err |-> ""],
     [member |-> FALSE, err |-> ""]}

\* a Once that is marked done only when the function it ran succeeded
OnceMarksDone_unlessError(outcome) == outcome.err = ""

\* sync.Once.Do stores done = 1 when f returns, whatever f did
OnceMarksDone(outcome) == TRUE

InitAdmin ==
    /\ PipelineInit
    /\ pure = [fn |-> "IsRunningAsAdmin", done |-> FALSE, mutex |-> 0,
               isAdminProcess |-> FALSE, adminCheckErr |-> "",
               osChecks |-> 0, returned |-> {},
               pc |-> [c \in Callers |-> "idle"],
               calls |-> [c \in Callers |-> 0]]

AdminUnchanged == <<now, svc, pipeVars, aggVars, deviceIDMap, dbVars, saver,
                    flusherNext, loggerOpen, persisted>>

\* a goroutine calls IsRunningAsAdmin: the fast path of Do reads done
adminCall(c) ==
    /\ pure.pc[c] = "idle"
    /\ pure.calls[c] < MaxCallsEach
    /\ pure' = [pure EXCEPT
                  !.calls[c] = @ + 1,
                  !.pc[c] = IF pure.done THEN "return" ELSE "doSlow"]
    /\ UNCHANGED AdminUnchanged

\* the slow path of Do takes the mutex and reads done again
adminLock(c) ==
    /\ pure.pc[c] = "doSlow"
    /\ pure.mutex = 0
    /\ pure' = IF pure.done
               THEN [pure EXCEPT !.pc[c] = "return"]
               ELSE [pure EXCEPT !.mutex = c, !.pc[c] = "check"]
    /\ UNCHANGED AdminUnchanged

\* lines 22-46: the membership check, run with the mutex held; then Do
\* marks the Once done and releases the mutex
adminCheck(c) ==
    /\ pure.pc[c] = "check"
    /\ \E outcome \in AdminOutcomes :
          pure' = [pure EXCEPT
                     !.osChecks = @ + 1,
                     !.isAdminProcess = IF outcome.err = "" THEN outcome.member
                                        ELSE @,
                     !.adminCheckErr = IF outcome.err # "" THEN outcome.err
                                       ELSE @,
                     !.done = OnceMarksDone(outcome),
                     !.mutex = 0,
                     !.pc[c] = "return"]
    /\ UNCHANGED AdminUnchanged

\* line 48: return isAdminProcess, adminCheckErr
adminReturn(c) ==
    /\ pure.pc[c] = "return"
    /\ pure' = [pure EXCEPT
                  !.returned = @ \cup {<<pure.isAdminProcess,
                                         pure.adminCheckErr>>},
                  !.pc[c] = "idle"]
    /\ UNCHANGED AdminUnchanged

NextAdmin ==
    \/ \E c \in Callers : adminCall(c)
    \/ \E c \in Callers : adminLock(c)
    \/ \E c \in Callers : adminCheck(c)
    \/ \E c \in Callers : adminReturn(c)

SpecAdmin == InitAdmin /\ [][NextAdmin]_vars

\* C23: over all calls of all goroutines the membership check runs at most
\* once, every call returns the same (bool, error) pair, no call returns
\* before the check has run, and a failed check is not attempted again
C23_CheckedOnce ==
    /\ pure.osChecks <= 1
    /\ Cardinality(pure.returned) <= 1
    /\ pure.returned # {} => pure.osChecks = 1
    /\ \A c \in Callers : pure.pc[c] = "return" => pure.osChecks = 1

\* the first check failed, and every goroutine has made all its calls and
\* got that error, with the check run once
C23_Witness ==
    /\ pure.osChecks = 1
    /\ pure.returned = {<<FALSE, "IsMember">>}
    /\ \A c \in Callers : pure.calls[c] = MaxCallsEach /\ pure.pc[c] = "idle"

(***************************************************************************)
(* process.FindTCPProcess / FindUDPProcess (src/unnamed/part_005): the     *)
(* loop that queries the socket table.  The routine is handed the buffer   *)
(* and a pointer to size, which it may overwrite (it reports the size it   *)
(* needs there); the statuses and the values it leaves in size are the     *)
(* environment's choice.                                                   *)
(***************************************************************************)
\* var size uint32 = 8192
InitialSize == 8192
\* ERROR_INSUFFICIENT_BUFFER
InsufficientBuffer == 122
\* for attempts := 0; attempts < 3; attempts++
MaxAttempts == 3

\* statuses of the routine: success, insufficient buffer, access denied
TableStatuses == {0, InsufficientBuffer, 5}

\* sizes the routine can report as needed
SizesNeeded == {20000, 50000}

\* what a call can leave in size: the value passed in, or the size needed,
\* larger than the buffer when the status is insufficient buffer
SizesLeft(size, ret) ==
    {size} \cup {n \in SizesNeeded : ret = InsufficientBuffer => n > size}

\* lines 134-141: both failure branches end in continue
RetryAfter(ret) == ret # 0

InitRetry ==
    /\ PipelineInit
    /\ pure \in {[fn |-> f, attempts |-> 0, size |-> InitialSize,
                  buffers |-> <<>>, statuses |-> <<>>, lastErr |-> 0,
                  pc |-> "loop"] :
                    f \in {"FindTCPProcess", "FindUDPProcess"}}

\* one iteration of the loop, lines 121-141 (206-226 for UDP): allocate
\* size bytes, call the routine, double size on 122, record any other error
queryTable ==
    /\ pure.pc = "loop"
    /\ pure.attempts < MaxAttempts
    /\ \E ret \in TableStatuses :
       \E left \in SizesLeft(pure.size, ret) :
          pure' = [pure EXCEPT
                     !.buffers = Append(@, pure.size),
                     !.statuses = Append(@, ret),
                     !.size = IF ret = InsufficientBuffer THEN left * 2
                              ELSE left,
                     !.lastErr = IF ret \notin {0, InsufficientBuffer}
                                 THEN ret ELSE @,
                     !.attempts = IF RetryAfter(ret) THEN @ + 1 ELSE @,
                     !.pc = IF ret = 0 THEN "table"
                            ELSE IF RetryAfter(ret) THEN "loop"
                            ELSE "returned"]
    /\ UNCHANGED <<now, svc, pipeVars, aggVars, deviceIDMap, dbVars, saver,
                   flusherNext, loggerOpen, persisted>>

\* line 188 (271): return nil, lastErr after the last attempt
queryGivesUp ==
    /\ pure.pc = "loop"
    /\ pure.attempts = MaxAttempts
    /\ pure' = [pure EXCEPT !.pc = "returned"]
    /\ UNCHANGED <<now, svc, pipeVars, aggVars, deviceIDMap, dbVars, saver,
                   flusherNext, loggerOpen, persisted>>

NextRetry == queryTable \/ queryGivesUp

SpecRetry == InitRetry /\ [][NextRetry]_vars

\* C24: a lookup calls the routine at most three times, the first time with
\* a buffer of 8192 bytes; after status 122 the next buffer is twice as
\* large as the one that was insufficient; after any other nonzero status
\* the error is recorded and the query is made again, up to the third call
C24_BoundedRetry ==
    LET n == Len(pure.buffers)
    IN  /\ n <= MaxAttempts
        /\ n >= 1 => pure.buffers[1] = InitialSize
        /\ \A k \in 1..(n - 1) :
              pure.statuses[k] = InsufficientBuffer =>
                 pure.buffers[k + 1] = 2 * pure.buffers[k]
        /\ \A k \in 1..n :
              pure.statuses[k] \notin {0, InsufficientBuffer} =>
                 /\ pure.lastErr # 0
                 /\ k < MaxAttempts => (n > k \/ pure.pc = "loop")
        /\ pure.pc = "returned" => n = MaxAttempts

\* the parts of C24 that do not depend on what the routine leaves in size
C24_AttemptsBounded ==
    LET n == Len(pure.buffers)
    IN  /\ n <= MaxAttempts
        /\ n >= 1 => pure.buffers[1] = InitialSize
        /\ \A k \in 1..(n - 1) :
              pure.statuses[k] = InsufficientBuffer =>
                 pure.buffers[k + 1] >= 2 * pure.buffers[k]

\* C37: a FindTCPProcess / FindUDPProcess call that returns without a
\* ProcessInfo returns a non-nil error (lastErr 0 stands for nil), also when
\* every attempt reported insufficient buffer
C37_ResultOrError ==
    pure.pc = "returned" => pure.lastErr # 0

\* the part of C37 that holds: the call that gives up returns the status of
\* the last attempt that failed otherwise than by insufficient buffer, and
\* nil only if there was none
C37_ErrorOfLastFailure ==
    pure.pc = "returned" =>
        LET failed == {k \in 1..Len(pure.statuses) :
                          pure.statuses[k] \notin {0, InsufficientBuffer}}
        IN  IF failed = {} THEN pure.lastErr = 0
            ELSE pure.lastErr =
                    pure.statuses[CHOOSE k \in failed : \A j \in failed : j <= k]

(***************************************************************************)
(* process.FindTCPProcess / FindUDPProcess: the comparison of the rows.    *)
(***************************************************************************)
\* number of values of a uint16 port
Ports16 == 65536

\* a conversion that leaves the port in host order
swap16_hostOrder(p) == p

\* (localPort << 8) | (localPort >> 8) on a uint16: the shift to the left
\* drops the high byte, and the two operands of | share no bit
swap16(p) == ((p * 256) % Ports16) + (p \div 256)

\* the uint32 port field of a row holding port q in network byte order: its
\* two bytes, high one first, read as a little-endian integer
NetworkOrderField(q) == (q \div 256) + 256 * (q % 256)

TCPRow(localAddr, localPort, remoteAddr, remotePort, pid) ==
    [LocalAddr |-> localAddr, LocalPort |-> localPort,
     RemoteAddr |-> remoteAddr, RemotePort |-> remotePort, ProcessID |-> pid]

\* the test of lines 175-178
TCPRowMatches(row, localPort, remotePort, localAddr, remoteAddr) ==
    /\ row.LocalPort = swap16(localPort)
    /\ (remotePort = 0 \/ row.RemotePort = swap16(remotePort))
    /\ (localAddr = 0 \/ row.LocalAddr = localAddr)
    /\ (remoteAddr = 0 \/ row.RemoteAddr = remoteAddr)

\* the test of lines 260-261
UDPRowMatches(row, localPort, localAddr) ==
    /\ row.LocalPort = swap16(localPort)
    /\ (localAddr = 0 \/ row.LocalAddr = localAddr)

(***************************************************************************)
(* find_tcp(p, 0) against a table of one row that holds port q.            *)
(***************************************************************************)
\* the ports a row holds when it does not hold p: the next port, and the
\* port whose network-order encoding is p read in host order
OtherPorts(p) == {(p + 1) % Ports16, swap16(p)} \ {p}

InitByteOrder ==
    /\ PipelineInit
    /\ \E p \in 0..(Ports16 - 1) : \E q \in {p} \cup OtherPorts(p) :
           pure = [fn |-> "FindTCPProcess", p |-> p, q |-> q,
                   row |-> TCPRow(1, NetworkOrderField(q), 2,
                                  NetworkOrderField(80), 7),
                   done |-> FALSE, matched |-> FALSE]

applyByteOrder ==
    /\ ~pure.done
    /\ pure' = [pure EXCEPT
                  !.done = TRUE,
                  !.matched = TCPRowMatches(pure.row, pure.p, 0, 0, 0)]
    /\ UNCHANGED <<now, svc, pipeVars, aggVars, deviceIDMap, dbVars, saver,
                   flusherNext, loggerOpen, persisted>>

NextByteOrder == applyByteOrder

SpecByteOrder == InitByteOrder /\ [][NextByteOrder]_vars

\* C25: for every port p, the value the rows are compared with is the byte
\* swap of p, below 2^16, and a row matches find_tcp(p, 0) iff its local
\* port field is the network-order encoding of p
C25_ByteOrder ==
    /\ swap16(pure.p) \in 0..(Ports16 - 1)
    /\ swap16(pure.p) = (pure.p % 256) * 256 + (pure.p \div 256)
    /\ pure.done => (pure.matched <=> pure.q = pure.p)

\* the row that holds port 443 in network order (bytes 01 BB, the field
\* 0xBB01) has matched find_tcp(443, 0)
C25_Witness ==
    /\ pure.done
    /\ pure.p = 443
    /\ pure.row.LocalPort = 47873
    /\ pure.matched

(***************************************************************************)
(* The scan of the table in FindTCPProcess / FindUDPProcess, lines 166-184 *)
(* and 251-267, against tables of at most MaxRows rows.                    *)
(***************************************************************************)
MaxRows == 2

\* the ports and addresses of the rows and of the queries; 0 is the wildcard
\* of a query and the address of a socket bound to every interface
TablePorts == {80, 443}
TableAddrs == {0, 1}
QueryAddrs == {0, 1, 2}

\* the process a row names: the table is sorted by pid (SORT_BY_PID)
PidAt(i) == 4 * i

\* windows.OpenProcess fails for the pids in denied
GetProcessDetails(pid, denied) ==
    IF pid \in denied
    THEN [err |-> "OpenProcess failed", ProcessID |-> 0]
    ELSE [err |-> "", ProcessID |-> pid]

\* a scan that keeps the last row that passes the test
FirstIndex_last(hits) == CHOOSE i \in hits : \A j \in hits : j <= i

\* the loop runs i upwards and returns at the first row that passes the test
FirstIndex(hits) == CHOOSE i \in hits : \A j \in hits : i <= j

TCPHits(rows, q) ==
    {i \in 1..Len(rows) : TCPRowMatches(rows[i], q.localPort, q.remotePort,
                                        q.localAddr, q.remoteAddr)}

UDPHits(rows, q) ==
    {i \in 1..Len(rows) : UDPRowMatches(rows[i], q.localPort, q.localAddr)}

\* what the function returns once the table has been fetched
ScanResult(rows, hits, denied, what) ==
    IF Len(rows) = 0
    THEN [err |-> "no " \o what \o " connections found", ProcessID |-> 0]
    ELSE IF hits # {}
    THEN GetProcessDetails(rows[FirstIndex(hits)].ProcessID, denied)
    ELSE [err |-> "matching process not found", ProcessID |-> 0]

FindTCPProcess(rows, q, denied) ==
    ScanResult(rows, TCPHits(rows, q), denied, "TCP")

FindUDPProcess(rows, q, denied) ==
    ScanResult(rows, UDPHits(rows, q), denied, "UDP")

TableRows ==
    {TCPRow(la, NetworkOrderField(lp), ra, NetworkOrderField(rp), 0) :
        la \in TableAddrs, lp \in TablePorts,
        ra \in TableAddrs, rp \in TablePorts}

\* the tables: the i-th row belongs to process PidAt(i)
Tables ==
    UNION {{[i \in 1..n |-> [t[i] EXCEPT !.ProcessID = PidAt(i)]] :
                t \in [1..n -> TableRows]} : n \in 0..MaxRows}

Queries ==
    [localPort : TablePorts, remotePort : TablePorts \cup {0},
     localAddr : QueryAddrs, remoteAddr : QueryAddrs]

\* find_udp has no remote end
UDPQueries == {q \in Queries : q.remotePort = 0 /\ q.remoteAddr = 0}

InitScan ==
    /\ PipelineInit
    /\ \E fn \in {"FindTCPProcess", "FindUDPProcess"} :
       \E rows \in Tables :
       \E q \in IF fn = "FindTCPProcess" THEN Queries ELSE UDPQueries :
       \E denied \in {{}, {PidAt(1)}} :
           pure = [fn |-> fn, rows |-> rows, q |-> q, denied |-> denied,
                   done |-> FALSE, result |-> [err |-> "", ProcessID |-> 0]]

scanTCP ==
    /\ pure.fn = "FindTCPProcess"
    /\ ~pure.done
    /\ pure' = [pure EXCEPT
                  !.done = TRUE,
                  !.result = FindTCPProcess(pure.rows, pure.q, pure.denied)]
    /\ UNCHANGED <<now, svc, pipeVars, aggVars, deviceIDMap, dbVars, saver,
                   flusherNext, loggerOpen, persisted>>

scanUDP ==
    /\ pure.fn = "FindUDPProcess"
    /\ ~pure.done
    /\ pure' = [pure EXCEPT
                  !.done = TRUE,
                  !.result = FindUDPProcess(pure.rows, pure.q, pure.denied)]
    /\ UNCHANGED <<now, svc, pipeVars, aggVars, deviceIDMap, dbVars, saver,
                   flusherNext, loggerOpen, persisted>>

NextScan == scanTCP \/ scanUDP

SpecScan == InitScan /\ [][NextScan]_vars

\* the rows of the table that match the query, in the words of the claim:
\* the row holds the port when its field is the port in network byte order
HoldsPort(field, p) == field = NetworkOrderField(p)

MatchingRows ==
    {i \in 1..Len(pure.rows) :
        /\ HoldsPort(pure.rows[i].LocalPort, pure.q.localPort)
        /\ pure.fn = "FindTCPProcess" =>
              /\ pure.q.remotePort = 0
                 \/ HoldsPort(pure.rows[i].RemotePort, pure.q.remotePort)
              /\ pure.q.remoteAddr = 0
                 \/ pure.rows[i].RemoteAddr = pure.q.remoteAddr
        /\ pure.q.localAddr = 0 \/ pure.rows[i].LocalAddr = pure.q.localAddr}

FirstMatchingPid ==
    pure.rows[CHOOSE i \in MatchingRows : \A j \in MatchingRows : i <= j].ProcessID

Word16 == 65536
TCPRowSize == 24
UDPRowSize == 12
ArrayRows == 1024

U32(n) == [hi |-> (n \div Word16) % Word16, lo |-> n % Word16]

\* k * c modulo 2^32, for a small k
Mul32(k, c) ==
    [hi |-> (k * c.hi + (k * c.lo) \div Word16) % Word16,
     lo |-> (k * c.lo) % Word16]

\* k + c modulo 2^32, for a small k
Add32(k, c) ==
    [hi |-> (c.hi + (k + c.lo) \div Word16) % Word16,
     lo |-> (k + c.lo) % Word16]

Less32(a, b) == a.hi < b.hi \/ (a.hi = b.hi /\ a.lo < b.lo)

\* expectedSize := 4 + (uint32(rowSize) * count)
expectedSize(rowSize, count) == Add32(4, Mul32(rowSize, count))

\* what the function does with a fetched table of len bytes whose first four
\* bytes hold count, when no row matches the query: the error it returns, or
\* the run-time panic of the slice expression [:count:count] on an array of
\* 1024 rows, and the number of rows the loop has read
validateTable(rowSize, len, count) ==
    IF len < 4
    THEN [outcome |-> "table data too small", rowsRead |-> 0]
    ELSE IF count = U32(0)
    THEN [outcome |-> "no connections found", rowsRead |-> 0]
    ELSE IF Less32(U32(len), expectedSize(rowSize, count))
    THEN [outcome |-> "table data incomplete", rowsRead |-> 0]
    ELSE IF Less32(U32(ArrayRows), count)
    THEN [outcome |-> "panic: slice bounds out of range", rowsRead |-> 0]
    ELSE [outcome |-> "matching process not found", rowsRead |-> count.lo]

\* the low halves of the counts; every high half is taken
CountLows == {0, 1, 342, 1025}

\* the buffer lengths: the first buffer and the buffer of the third attempt
TableLens == {InitialSize, 4 * InitialSize}

InitTable ==
    /\ PipelineInit
    /\ \E rowSize \in {TCPRowSize, UDPRowSize} :
       \E len \in TableLens :
       \E hi \in 0..(Word16 - 1) : \E lo \in CountLows :
           pure = [fn |-> "validateTable", rowSize |-> rowSize, len |-> len,
                   count |-> [hi |-> hi, lo |-> lo], done |-> FALSE,
                   outcome |-> "", rowsRead |-> 0]

applyValidateTable ==
    /\ ~pure.done
    /\ LET r == validateTable(pure.rowSize, pure.len, pure.count)
       IN  pure' = [pure EXCEPT !.done = TRUE, !.outcome = r.outcome,
                                !.rowsRead = r.rowsRead]
    /\ UNCHANGED <<now, svc, pipeVars, aggVars, deviceIDMap, dbVars, saver,
                   flusherNext, loggerOpen, persisted>>

NextTable == applyValidateTable

SpecTable == InitTable /\ [][NextTable]_vars

\* 4 + c * sizeof(Row), as a mathematical integer, exceeds the length of the
\* buffer: c exceeds the number of whole rows that fit behind the count
ExceedsBuffer ==
    \/ pure.count.hi > 0
    \/ pure.count.lo > (pure.len - 4) \div pure.rowSize

\* C27: when 4 + c * sizeof(Row), not reduced modulo 2^32, exceeds the
\* buffer length, the lookup fails with the table-incomplete error and scans
\* no row
C27_SizeValidated ==
    (pure.done /\ ExceedsBuffer) =>
        pure.outcome = "table data incomplete" /\ pure.rowsRead = 0

\* the part of C27 that holds: every row the loop reads lies inside the
\* buffer, and a count that exceeds the buffer never leads to a scan
C27_NoRowOutside ==
    pure.done =>
        /\ 4 + pure.rowsRead * pure.rowSize <= pure.len
        /\ ExceedsBuffer => pure.rowsRead = 0

\* C38: for any row count that fits the buffer, counts above the 1024 rows
\* of the array type included, the lookup returns a result or an error and
\* never panics while it builds or indexes the row view
C38_NoPanic ==
    (pure.done /\ ~ExceedsBuffer) =>
        pure.outcome # "panic: slice bounds out of range"

\* the part of C38 that holds: a table of at most 1024 rows that fits the
\* buffer is scanned to its end, and the first buffer cannot hold more
C38_ScannedUpToArray ==
    (pure.done /\ ~ExceedsBuffer /\ pure.count # U32(0)) =>
        IF pure.count.lo <= ArrayRows
        THEN /\ pure.outcome = "matching process not found"
             /\ pure.rowsRead = pure.count.lo
        ELSE /\ pure.outcome = "panic: slice bounds out of range"
             /\ pure.len > InitialSize

(***************************************************************************)
(* The classification when the enumeration of the interfaces fails.        *)
(***************************************************************************)
\* the test of the first statement of isLocalIP
IsLoopbackText(ip) == HasPrefix(ip, <<"1","2","7",".">>) \/ ip = IP_Loop6

\* C28: when net.Interfaces() fails, determinePacketDirection returns
\* external for every pair (src, dst), pairs with a loopback address included
C28_ExternalOnFailure ==
    (pure.done /\ pure.enumSrc.err /\ pure.enumDst.err) =>
        pure.out = "external"

\* the part of C28 that holds: with the enumeration failing, a pair without
\* a loopback address is external, and a pair with one never is
C28_ExternalUnlessLoopback ==
    (pure.done /\ pure.enumSrc.err /\ pure.enumDst.err) =>
        (pure.out = "external"
            <=> ~IsLoopbackText(pure.srcIP) /\ ~IsLoopbackText(pure.dstIP))

(***************************************************************************)
(* process.GetProcessDetails, lines 83-103: the two strings it cuts out of *)
(* the buffer that QueryFullProcessImageName has filled.                   *)
(***************************************************************************)
MAX_PATH == 260
MaxDir == 200

\* the terminator of a UTF-16 string in the buffer
NUL == ""

\* the image paths: C:\ab.exe, or C:\dd...d\ab.exe with k letters d
ImagePath(k) ==
    <<"C", ":", "\\">>
        \o (IF k = 0 THEN <<>> ELSE [i \in 1..k |-> "d"] \o <<"\\">>)
        \o <<"a", "b", ".", "e", "x", "e">>

\* var path [MAX_PATH]uint16 after a successful QueryFullProcessImageName:
\* the path, its terminator, and the zeroes the array started with
FilledBuffer(image) ==
    [i \in 1..MAX_PATH |-> IF i <= Len(image) THEN image[i] ELSE NUL]

\* windows.UTF16ToString: the units before the first terminator
UTF16ToString(s) ==
    IF \E i \in 1..Len(s) : s[i] = NUL
    THEN SubSeq(s, 1, (CHOOSE i \in 1..Len(s) :
                          s[i] = NUL /\ \A j \in 1..(i - 1) : s[j] # NUL) - 1)
    ELSE s

\* the ProcessInfo of line 96-100; length is the number of units the call
\* has written, the terminator not counted
ProcessInfoOf(pid, image) ==
    LET path == FilledBuffer(image)
        length == Len(image)
    IN  [ProcessID |-> pid,
         ExecutablePath |-> UTF16ToString(SubSeq(path, 1, length)),
         ProcessName |->
             UTF16ToString(SubSeq(path, MAX_PATH - length + 1, MAX_PATH))]

InitDetails ==
    /\ PipelineInit
    /\ \E k \in 0..MaxDir : \E pid \in {4, 42} :
           pure = [fn |-> "GetProcessDetails", pid |-> pid,
                   image |-> ImagePath(k), done |-> FALSE,
                   info |-> [ProcessID |-> 0, ExecutablePath |-> <<>>,
                             ProcessName |-> <<>>]]

applyGetProcessDetails ==
    /\ ~pure.done
    /\ pure' = [pure EXCEPT !.done = TRUE,
                            !.info = ProcessInfoOf(pure.pid, pure.image)]
    /\ UNCHANGED <<now, svc, pipeVars, aggVars, deviceIDMap, dbVars, saver,
                   flusherNext, loggerOpen, persisted>>

NextDetails == applyGetProcessDetails

SpecDetails == InitDetails /\ [][NextDetails]_vars

\* what follows the last backslash of a path
LastComponent(p) ==
    LET seps == {i \in 1..Len(p) : p[i] = "\\"}
    IN  IF seps = {} THEN p
        ELSE SubSeq(p, (CHOOSE i \in seps : \A j \in seps : j <= i) + 1, Len(p))

IsSuffixOf(s, p) ==
    Len(s) <= Len(p) /\ SubSeq(p, Len(p) - Len(s) + 1, Len(p)) = s

\* C29: GetProcessDetails returns ExecutablePath equal to the full image
\* path and ProcessName equal to the last component of that path, so a
\* non-empty suffix of it
C29_NameIsLastComponent ==
    pure.done =>
        /\ pure.info.ExecutablePath = pure.image
        /\ pure.info.ProcessName = LastComponent(pure.image)
        /\ pure.info.ProcessName # <<>>
        /\ IsSuffixOf(pure.info.ProcessName, pure.image)

\* the part of C29 that holds: the path is returned whole, and the name is
\* the suffix of the path that starts at unit MAX_PATH - length, which is
\* empty for a path of at most MAX_PATH / 2 units
C29_NameIsTail ==
    pure.done =>
        /\ pure.info.ProcessID = pure.pid
        /\ pure.info.ExecutablePath = pure.image
        /\ IsSuffixOf(pure.info.ProcessName, pure.image)
        /\ Len(pure.info.ProcessName) =
              IF 2 * Len(pure.image) > MAX_PATH
              THEN 2 * Len(pure.image) - MAX_PATH ELSE 0

(***************************************************************************)
(* database.StoreInterface called again and again on a table that already  *)
(* has rows.                                                               *)
(***************************************************************************)
MaxUpserts == 3
MaxInitialID == 3

\* the (name, description) pairs; UNIQUE(name, description) tells apart two
\* rows of one name
InterfacePairs ==
    {<<"eth0", "Ethernet">>, <<"eth0", "">>, <<"wlan0", "Wireless">>}

\* the tables the constraint and the key allow: ids ascending in insertion
\* order, no pair twice
InitialTables ==
    {t \in UNION {[1..n -> [id : 1..MaxInitialID,
                            name : {p[1] : p \in InterfacePairs},
                            description : {p[2] : p \in InterfacePairs}]] :
                     n \in 0..2} :
        /\ \A i \in 1..Len(t) : <<t[i].name, t[i].description>> \in InterfacePairs
        /\ \A i, j \in 1..Len(t) :
               i < j => /\ t[i].id < t[j].id
                        /\ <<t[i].name, t[i].description>>
                               # <<t[j].name, t[j].description>>}

InitUpsert ==
    /\ PipelineInit
    /\ \E t \in InitialTables :
           pure = [fn |-> "StoreInterface", table |-> t, initial |-> t,
                   calls |-> <<>>]

applyStoreInterface ==
    /\ Len(pure.calls) < MaxUpserts
    /\ \E p \in InterfacePairs : \E execOK \in BOOLEAN :
          LET res == StoreInterface(pure.table, p[1], p[2], execOK)
          IN  pure' = [pure EXCEPT
                         !.table = res.rows,
                         !.calls = Append(@, [name |-> p[1],
                                              description |-> p[2],
                                              id |-> res.id, err |-> res.err,
                                              before |-> pure.table])]
    /\ UNCHANGED <<now, svc, pipeVars, aggVars, deviceIDMap, dbVars, saver,
                   flusherNext, loggerOpen, persisted>>

NextUpsert == applyStoreInterface

SpecUpsert == InitUpsert /\ [][NextUpsert]_vars

RowsOfPair(t, name, description) ==
    {i \in 1..Len(t) : t[i].name = name /\ t[i].description = description}

\* the rows of a table that belong to other pairs, in their order
OtherRows(t, name, description) ==
    SelectSeq(t, LAMBDA r : r.name # name \/ r.description # description)

\* C30: the calls of StoreInterface for one (name, description) that return
\* without error all return one and the same id, which is the id of the one
\* row the table then has for that pair; a call that fails returns id 0 and
\* changes nothing; no call changes the rows of another pair or gives two
\* rows one id
C30_UpsertIdempotent ==
    /\ \A i, j \in 1..Len(pure.calls) :
          (/\ pure.calls[i].name = pure.calls[j].name
           /\ pure.calls[i].description = pure.calls[j].description
           /\ ~pure.calls[i].err /\ ~pure.calls[j].err)
              => pure.calls[i].id = pure.calls[j].id
    /\ \A i \in 1..Len(pure.calls) :
          LET c == pure.calls[i]
              after == IF i < Len(pure.calls) THEN pure.calls[i + 1].before
                       ELSE pure.table
              own == RowsOfPair(after, c.name, c.description)
          IN  /\ c.err => (c.id = 0 /\ after = c.before)
              /\ ~c.err => (Cardinality(own) = 1
                            /\ \A k \in own : after[k].id = c.id)
              /\ OtherRows(after, c.name, c.description)
                    = OtherRows(c.before, c.name, c.description)
    /\ \A i, j \in 1..Len(pure.table) :
          pure.table[i].id = pure.table[j].id => i = j

\* three calls for the pair (eth0, Ethernet) on a table that held a row of
\* another pair with id 3: all three returned id 4, and the table has two
\* rows
C30_Witness ==
    /\ Len(pure.initial) = 1 /\ pure.initial[1].id = 3
    /\ pure.initial[1].name = "wlan0"
    /\ Len(pure.calls) = 3
    /\ \A i \in 1..3 : /\ pure.calls[i].name = "eth0"
                        /\ pure.calls[i].description = "Ethernet"
                        /\ pure.calls[i].id = 4 /\ ~pure.calls[i].err
    /\ Len(pure.table) = 2

(***************************************************************************)
(* database.go: the schema.  A store is what the SQLite file holds: the    *)
(* columns of its tables, its indexes and its rows.  A row is a function   *)
(* from the columns of its table to cells; a cell is Null or <<value>>.    *)
(* Every statement returns the store it leaves and its error ("" for nil). *)
(***************************************************************************)
EmptyStore == [tables |-> EmptyMap, indexes |-> EmptyMap, rows |-> EmptyMap]

Remove(m, k) == [x \in (DOMAIN m) \ {k} |-> m[x]]

Done(store) == [store |-> store, err |-> ""]
Failed(store, err) == [store |-> store, err |-> err]

\* r is the result of the statements so far, next that of the statement
\* that follows them: a function returns at the first error
Then(r, next) == IF r.err # "" THEN r ELSE next

\* fmt.Errorf("...: %v", err) around a result
Wrapped(r, msg) == IF r.err # "" THEN Failed(r.store, msg) ELSE r

HasTable(store, t) == t \in DOMAIN store.tables

\* SELECT COUNT(*) FROM pragma_table_info(t) WHERE name = column
HasColumn(store, t, column) == HasTable(store, t) /\ column \in store.tables[t]

\* CREATE TABLE IF NOT EXISTS
CreateTable(store, t, columns) ==
    IF HasTable(store, t) THEN Done(store)
    ELSE Done([store EXCEPT !.tables = Put(@, t, columns),
                            !.rows = Put(@, t, <<>>)])

\* CREATE INDEX IF NOT EXISTS idx ON t(column): nothing happens when an
\* index of that name exists, and the column has to exist otherwise
CreateIndex(store, idx, t, column) ==
    IF ~HasTable(store, t) THEN Failed(store, "no such table")
    ELSE IF idx \in DOMAIN store.indexes THEN Done(store)
    ELSE IF column \notin store.tables[t] THEN Failed(store, "no such column")
    ELSE Done([store EXCEPT
                 !.indexes = Put(@, idx, [table |-> t, column |-> column])])

\* ALTER TABLE t ADD COLUMN column: the rows get NULL in the new column
AddColumn(store, t, column) ==
    IF ~HasTable(store, t) THEN Failed(store, "no such table")
    ELSE IF column \in store.tables[t]
    THEN Failed(store, "duplicate column name")
    ELSE Done([store EXCEPT
                 !.tables[t] = @ \cup {column},
                 !.rows[t] = [i \in 1..Len(@) |-> Put(@[i], column, Null)]])

\* DROP TABLE t: its indexes go with it
DropTable(store, t) ==
    IF ~HasTable(store, t) THEN Failed(store, "no such table")
    ELSE Done([tables |-> Remove(store.tables, t),
               rows |-> Remove(store.rows, t),
               indexes |-> [x \in {y \in DOMAIN store.indexes :
                                      store.indexes[y].table # t}
                               |-> store.indexes[x]]])

\* ALTER TABLE t RENAME TO u: the indexes of t follow it
RenameTable(store, t, u) ==
    IF ~HasTable(store, t) THEN Failed(store, "no such table")
    ELSE IF HasTable(store, u) THEN Failed(store, "there is already a table")
    ELSE Done([tables |-> Put(Remove(store.tables, t), u, store.tables[t]),
               rows |-> Put(Remove(store.rows, t), u, store.rows[t]),
               indexes |-> [x \in DOMAIN store.indexes |->
                              IF store.indexes[x].table = t
                              THEN [store.indexes[x] EXCEPT !.table = u]
                              ELSE store.indexes[x]]])

InterfaceColumns == {"id", "name", "description", "created_at"}

PacketColumns ==
    {"id", "timestamp", "device_id", "src_ip", "src_port", "dst_ip",
     "dst_port", "protocol", "length", "process_id", "process_name",
     "process_path", "direction"}

AppStatsColumns ==
    {"id", "process_id", "process_name", "process_path", "total_packets",
     "total_bytes", "last_updated", "destinations", "first_seen", "last_seen"}

ProtocolStatsColumns == {"id", "app_stats_id", "protocol", "packet_count"}

\* the indexes of createTables and of the end of the migration
PacketIndexes ==
    << <<"idx_timestamp", "timestamp">>, <<"idx_protocol", "protocol">>,
       <<"idx_process_name", "process_name">>,
       <<"idx_device_id", "device_id">> >>

AppStatsIndexes ==
    << <<"idx_app_stats_process_name", "application_stats", "process_name">>,
       <<"idx_app_stats_process_id", "application_stats", "process_id">>,
       <<"idx_protocol_stats_app_id", "protocol_stats", "app_stats_id">> >>

RECURSIVE CreatePacketIndexes(_, _)
\* for _, idx := range indexes, from the i-th on
CreatePacketIndexes(r, i) ==
    IF r.err # "" \/ i > Len(PacketIndexes) THEN r
    ELSE CreatePacketIndexes(
             CreateIndex(r.store, PacketIndexes[i][1], "packet_logs",
                         PacketIndexes[i][2]), i + 1)

RECURSIVE CreateAppStatsIndexes(_, _)
CreateAppStatsIndexes(r, i) ==
    IF r.err # "" \/ i > Len(AppStatsIndexes) THEN r
    ELSE CreateAppStatsIndexes(
             CreateIndex(r.store, AppStatsIndexes[i][1],
                         AppStatsIndexes[i][2], AppStatsIndexes[i][3]), i + 1)

\* createAppStatsTables, lines 355-405
createAppStatsTables(store) ==
    LET r1 == CreateTable(store, "application_stats", AppStatsColumns)
        r2 == Then(r1, CreateTable(r1.store, "protocol_stats",
                                   ProtocolStatsColumns))
    IN  Wrapped(CreateAppStatsIndexes(r2, 1), "error creating index")

\* createTables, lines 100-158
createTables(store) ==
    LET r1 == CreateTable(store, "network_interfaces", InterfaceColumns)
        r2 == Then(r1, CreateTable(r1.store, "packet_logs", PacketColumns))
        r3 == Wrapped(CreatePacketIndexes(r2, 1), "error creating index")
    IN  Then(r3, Wrapped(createAppStatsTables(r3.store),
                         "error creating application stats tables"))

\* the copy with an inner join: packets of an unknown device are left out
JoinedRows_innerJoin(store) ==
    LET ps == store.rows["packet_logs"]
        ns == store.rows["network_interfaces"]
        hits(i) == {j \in 1..Len(ns) : ns[j]["name"] = ps[i]["device"]}
        new(i, deviceID) ==
            [c \in PacketColumns \ {"id"} |->
                IF c = "device_id" THEN deviceID ELSE ps[i][c]]
        rowsOf(i) ==
            [k \in 1..Cardinality(hits(i)) |->
                new(i, ns[CHOOSE j \in hits(i) :
                           Cardinality({h \in hits(i) : h <= j}) = k]["id"])]
        F[i \in 0..Len(ps)] == IF i = 0 THEN <<>> ELSE F[i - 1] \o rowsOf(i)
    IN  F[Len(ps)]

\* INSERT INTO packet_logs_new (...) SELECT ... FROM packet_logs p LEFT JOIN
\* network_interfaces n ON p.device = n.name: for a row p, one row for
\* every n of that name, or one row with device_id 0 when there is none;
\* the columns that are not listed keep their default, the next id
JoinedRows(store) ==
    LET ps == store.rows["packet_logs"]
        ns == store.rows["network_interfaces"]
        hits(i) == {j \in 1..Len(ns) : ns[j]["name"] = ps[i]["device"]}
        new(i, deviceID) ==
            [c \in PacketColumns \ {"id"} |->
                IF c = "device_id" THEN deviceID ELSE ps[i][c]]
        rowsOf(i) ==
            IF hits(i) = {} THEN <<new(i, <<0>>)>>
            ELSE [k \in 1..Cardinality(hits(i)) |->
                    new(i, ns[CHOOSE j \in hits(i) :
                               Cardinality({h \in hits(i) : h <= j}) = k]["id"])]
        F[i \in 0..Len(ps)] == IF i = 0 THEN <<>> ELSE F[i - 1] \o rowsOf(i)
    IN  F[Len(ps)]

InsertJoined(store) ==
    IF ~HasTable(store, "packet_logs") \/ ~HasTable(store, "packet_logs_new")
          \/ ~HasTable(store, "network_interfaces")
    THEN Failed(store, "no such table")
    ELSE IF ~(PacketColumns \ {"id", "device_id"}) \cup {"device"}
                \subseteq store.tables["packet_logs"]
    THEN Failed(store, "no such column")
    ELSE LET old == store.rows["packet_logs_new"]
             add == JoinedRows(store)
         IN  Done([store EXCEPT !.rows["packet_logs_new"] =
                      old \o [k \in 1..Len(add) |->
                                 Put(add[k], "id", <<Len(old) + k>>)]])

\* migrateDatabase, lines 191-268: the migration from device to device_id
migrateDevice(store) ==
    LET r1 == Wrapped(AddColumn(store, "packet_logs", "device_id"),
                      "error adding device_id column")
        r2 == Then(r1, Wrapped(CreateTable(r1.store, "packet_logs_new",
                                           PacketColumns),
                               "error creating new packet_logs table"))
        r3 == Then(r2, Wrapped(InsertJoined(r2.store),
                               "error migrating data to new table"))
        r4 == Then(r3, Wrapped(DropTable(r3.store, "packet_logs"),
                               "error dropping old table"))
        r5 == Then(r4, Wrapped(RenameTable(r4.store, "packet_logs_new",
                                           "packet_logs"),
                               "error renaming new table"))
    IN  Wrapped(CreatePacketIndexes(r5, 1), "error recreating index")

\* a migration that adds the direction column without looking for it
migrateDatabase_alwaysAdd(store) ==
    Wrapped(AddColumn(store, "packet_logs", "direction"),
            "error adding direction column")

\* migrateDatabase, lines 160-271
migrateDatabase(store) ==
    LET r1 == IF ~HasColumn(store, "packet_logs", "direction")
              THEN Wrapped(AddColumn(store, "packet_logs", "direction"),
                           "error adding direction column")
              ELSE Done(store)
    IN  Then(r1, IF HasColumn(r1.store, "packet_logs", "device")
                 THEN migrateDevice(r1.store)
                 ELSE r1)

\* InitDatabase, lines 67-98, on a file that opens and takes the pragmas
InitDatabase(store) ==
    LET r1 == Wrapped(createTables(store), "error creating tables")
    IN  Then(r1, Wrapped(migrateDatabase(r1.store),
                         "error migrating database"))

\* createTables of the revision that wrote the legacy stores: packet_logs
\* has the text column device, and there is no index on the device
createTables_legacy(store) ==
    LET r1 == CreateTable(store, "network_interfaces", InterfaceColumns)
        r2 == CreateTable(r1.store, "packet_logs",
                          (PacketColumns \ {"device_id"}) \cup {"device"})
        r3 == CreateIndex(r2.store, "idx_timestamp", "packet_logs", "timestamp")
        r4 == CreateIndex(r3.store, "idx_protocol", "packet_logs", "protocol")
    IN  CreateIndex(r4.store, "idx_process_name", "packet_logs",
                    "process_name")

(***************************************************************************)
(* The stores InitDatabase can find, and calls of createTables,            *)
(* migrateDatabase and InitDatabase on them.                               *)
(***************************************************************************)
MaxSchemaCalls == 3
MaxLegacyRows == 2

\* a row of network_interfaces
InterfaceCells(r) ==
    [id |-> <<r.id>>, name |-> <<r.name>>, description |-> <<r.description>>,
     created_at |-> <<0>>]

\* a row of packet_logs, for the columns of its table: the t-th packet,
\* captured on dev, of process pid (0: no process found)
PacketCells(columns, t, dev, pid) ==
    LET all == [id |-> <<t>>, timestamp |-> <<t>>, device |-> <<dev>>,
                device_id |-> <<IF dev = "eth0" THEN 1 ELSE 2>>,
                src_ip |-> <<"10.0.0.5">>, src_port |-> <<"5555">>,
                dst_ip |-> <<"93.184.216.34">>, dst_port |-> <<"443">>,
                protocol |-> <<"TCP">>, length |-> <<60>>,
                process_id |-> NullIf(pid, pid = 0),
                process_name |-> NullIf("curl", pid = 0),
                process_path |-> NullIf("C:\\curl.exe", pid = 0),
                direction |-> <<"outgoing">>]
    IN  [c \in columns |-> all[c]]

\* a store made by createTables_legacy or createTables, before or after the
\* direction column came, filled with interfaces and packets
FilledStore(legacy, hasDirection, interfaces, n, q) ==
    LET made == IF legacy THEN createTables_legacy(EmptyStore).store
                ELSE createTables(EmptyStore).store
        columns == IF hasDirection THEN made.tables["packet_logs"]
                   ELSE made.tables["packet_logs"] \ {"direction"}
    IN  [made EXCEPT
           !.tables["packet_logs"] = columns,
           !.rows["network_interfaces"] =
               [i \in 1..Len(interfaces) |-> InterfaceCells(interfaces[i])],
           !.rows["packet_logs"] =
               [t \in 1..n |-> PacketCells(columns, t, q[t][1], q[t][2])]]

InitSchema ==
    /\ PipelineInit
    /\ \/ pure = [fn |-> "InitDatabase", store |-> EmptyStore, calls |-> <<>>]
       \/ \E legacy \in BOOLEAN, hasDirection \in BOOLEAN :
          \E interfaces \in InitialTables :
          \E n \in 0..MaxLegacyRows :
          \E q \in [1..n -> {"eth0", "wlan0"} \X {0, 42}] :
              pure = [fn |-> "InitDatabase",
                      store |-> FilledStore(legacy, hasDirection, interfaces,
                                            n, q),
                      calls |-> <<>>]

SchemaCalled(fn, r) ==
    /\ Len(pure.calls) < MaxSchemaCalls
    /\ pure' = [pure EXCEPT
                  !.store = r.store,
                  !.calls = Append(@, [fn |-> fn, before |-> pure.store,
                                       err |-> r.err])]
    /\ UNCHANGED <<now, svc, pipeVars, aggVars, deviceIDMap, dbVars, saver,
                   flusherNext, loggerOpen, persisted>>

callCreateTables == SchemaCalled("createTables", createTables(pure.store))

\* migrateDatabase is called on a store that has its packet_logs table
callMigrateDatabase ==
    /\ HasTable(pure.store, "packet_logs")
    /\ SchemaCalled("migrateDatabase", migrateDatabase(pure.store))

callInitDatabase == SchemaCalled("InitDatabase", InitDatabase(pure.store))

NextSchema == callCreateTables \/ callMigrateDatabase \/ callInitDatabase

SpecSchema == InitSchema /\ [][NextSchema]_vars

\* the store the i-th call left
StoreAfter(i) ==
    IF i < Len(pure.calls) THEN pure.calls[i + 1].before ELSE pure.store

\* the schema createTables makes, whatever the rows
IsCurrentSchema(store) ==
    /\ store.tables = createTables(EmptyStore).store.tables
    /\ store.indexes = createTables(EmptyStore).store.indexes

\* C31: on a store with the schema of createTables, migrateDatabase succeeds
\* and changes neither the schema nor any row, the first time and the
\* second
C31_MigrateIdempotent ==
    \A i \in 1..Len(pure.calls) :
        (pure.calls[i].fn = "migrateDatabase"
            /\ IsCurrentSchema(pure.calls[i].before))
        => /\ pure.calls[i].err = ""
           /\ StoreAfter(i) = pure.calls[i].before

\* createTables on the empty file, then migrateDatabase twice, all without
\* error
C31_Witness ==
    /\ Len(pure.calls) = 3
    /\ pure.calls[1].before = EmptyStore
    /\ pure.calls[1].fn = "createTables"
    /\ pure.calls[2].fn = "migrateDatabase"
    /\ pure.calls[3].fn = "migrateDatabase"
    /\ \A i \in 1..3 : pure.calls[i].err = ""
    /\ IsCurrentSchema(pure.store)

\* a store whose packet_logs has the legacy column and not the new one
IsLegacy(store) ==
    /\ HasColumn(store, "packet_logs", "device")
    /\ ~HasColumn(store, "packet_logs", "device_id")
    /\ HasTable(store, "network_interfaces")

\* the id cells of the interfaces of a store whose name cell is this one
IdsOfName(store, name) ==
    {store.rows["network_interfaces"][j]["id"] :
        j \in {k \in 1..Len(store.rows["network_interfaces"]) :
                  store.rows["network_interfaces"][k]["name"] = name}}

C35_InitSucceeds ==
    \A i \in 1..Len(pure.calls) :
        pure.calls[i].fn = "InitDatabase"
        => /\ pure.calls[i].err = ""
           /\ IsCurrentSchema(StoreAfter(i))

\* the part of C35 that holds: InitDatabase succeeds and ends in the
\* current schema on every store whose packet_logs, if it exists, has the
\* device_id column; on a legacy store it fails in createTables and the
\* packet_logs table is left with its legacy columns
C35_InitUnlessLegacy ==
    \A i \in 1..Len(pure.calls) :
        pure.calls[i].fn = "InitDatabase"
        => IF IsLegacy(pure.calls[i].before)
           THEN /\ pure.calls[i].err = "error creating tables"
                /\ StoreAfter(i).rows["packet_logs"]
                      = pure.calls[i].before.rows["packet_logs"]
                /\ IsLegacy(StoreAfter(i))
           ELSE /\ pure.calls[i].err = ""
                /\ IsCurrentSchema(StoreAfter(i))

\* the columns the migration copies as they are
CopiedColumns == PacketColumns \ {"id", "device_id"}

\* a legacy row and a migrated row agree on the copied columns; a row of a
\* store without the direction column has no direction
SamePacket(old, new) ==
    \A c \in CopiedColumns :
        new[c] = IF c \in DOMAIN old THEN old[c] ELSE Null

\* C39: after migrateDatabase on a legacy store, packet_logs holds exactly
\* one row for each row it held before, with the same timestamp, addresses,
\* ports, protocol, length, process fields and direction, whatever the
\* content of network_interfaces
C39_LogPreserved ==
    \A i \in 1..Len(pure.calls) :
        (pure.calls[i].fn = "migrateDatabase" /\ IsLegacy(pure.calls[i].before))
        => LET old == pure.calls[i].before.rows["packet_logs"]
               new == StoreAfter(i).rows["packet_logs"]
           IN  /\ \A p \in 1..Len(old) :
                     Cardinality({r \in 1..Len(new) :
                                     SamePacket(old[p], new[r])}) = 1
               /\ Len(new) = Len(old)

\* the part of C39 that holds: every legacy row has at least one migrated
\* row, every migrated row comes from a legacy row, and a legacy row has
\* one migrated row for each interface of its name, one if there is none
C39_OnePerInterface ==
    \A i \in 1..Len(pure.calls) :
        (pure.calls[i].fn = "migrateDatabase" /\ IsLegacy(pure.calls[i].before))
        => LET before == pure.calls[i].before
               old == before.rows["packet_logs"]
               new == StoreAfter(i).rows["packet_logs"]
               copies(p) == {r \in 1..Len(new) : SamePacket(old[p], new[r])}
               named(p) == Cardinality(IdsOfName(before, old[p]["device"]))
           IN  /\ \A p \in 1..Len(old) :
                     Cardinality(copies(p)) = IF named(p) = 0 THEN 1
                                              ELSE named(p)
               /\ \A r \in 1..Len(new) : \E p \in 1..Len(old) : r \in copies(p)

(***************************************************************************)
(* database.StoreAppStats, lines 413-474, called again and again for one   *)
(* (process_name, process_id), with a clock that can advance between two   *)
(* time.Now() of one call.  The arguments of db.Exec are evaluated from    *)
(* left to right before the statement runs.                                *)
(***************************************************************************)
MaxStores == 4
MaxAdvance == 1

\* the UPDATE, lines 419-437: reads[1] is last_updated, reads[2] last_seen
UpdateTimes(row, reads) ==
    [row EXCEPT !.last_updated = reads[1], !.last_seen = reads[2]]

\* the INSERT, lines 450-467: last_updated, first_seen, last_seen are the
\* sixth, eighth and ninth argument
InsertTimes(reads) ==
    [last_updated |-> reads[1], first_seen |-> reads[2],
     last_seen |-> reads[3]]

\* the instants of successive clock reads that start at clock and advance
\* by adv[k] before the k-th read
ClockReads(clock, adv) ==
    LET F[k \in 0..Len(adv)] == IF k = 0 THEN clock ELSE F[k - 1] + adv[k]
    IN  [k \in 1..Len(adv) |-> F[k]]

InitTimes ==
    /\ PipelineInit
    /\ pure = [fn |-> "StoreAppStats", clock |-> 0, rows |-> <<>>,
               created |-> <<>>, calls |-> 0]

\* one call: the UPDATE with its two clock reads and, if it found no row,
\* the INSERT with three more
storeAppStatsCall ==
    /\ pure.calls < MaxStores
    /\ \E adv \in [1..5 -> 0..MaxAdvance] :
          LET reads == ClockReads(pure.clock, adv)
          IN  IF pure.rows # <<>>
              THEN pure' = [pure EXCEPT
                       !.rows = <<UpdateTimes(pure.rows[1],
                                              <<reads[1], reads[2]>>)>>,
                       !.clock = reads[2],
                       !.calls = @ + 1]
              ELSE pure' = [pure EXCEPT
                       !.rows = <<InsertTimes(<<reads[3], reads[4],
                                                reads[5]>>)>>,
                       !.created = <<reads[4]>>,
                       !.clock = reads[5],
                       !.calls = @ + 1]
    /\ UNCHANGED <<now, svc, pipeVars, aggVars, deviceIDMap, dbVars, saver,
                   flusherNext, loggerOpen, persisted>>

NextTimes == storeAppStatsCall

SpecTimes == InitTimes /\ [][NextTimes]_vars

\* C34: in the application_stats row, after the inserting call and after
\* every later update, last_seen >= first_seen and last_updated >=
\* first_seen, and first_seen is the one the row was created with
C34_Timestamps ==
    \A i \in 1..Len(pure.rows) :
        /\ pure.rows[i].last_seen >= pure.rows[i].first_seen
        /\ pure.rows[i].last_updated >= pure.rows[i].first_seen
        /\ <<pure.rows[i].first_seen>> = pure.created

\* the part of C34 that holds: last_seen >= first_seen, first_seen never
\* changes, and last_updated >= first_seen once the row has been updated
C34_SeenAfterFirst ==
    \A i \in 1..Len(pure.rows) :
        /\ pure.rows[i].last_seen >= pure.rows[i].first_seen
        /\ <<pure.rows[i].first_seen>> = pure.created
        /\ pure.calls > 1 =>
              pure.rows[i].last_updated >= pure.rows[i].first_seen

====
